---- MODULE Spec2Model ----
(***************************************************************************)
(* A model of glimmondb: the parser of G_LIMMON revisions (read_glimmon),  *)
(* the defaulting from the telemetry database (update_msid, fill_limits,   *)
(* fill_states), the row projection (GLimit), the temporary store          *)
(* (NewLimitDB), the three merge passes per table and the versions and     *)
(* fingerprint writes (merge_new_glimmon_to_db), and the full rebuild      *)
(* (recreate_db).                                                          *)
(***************************************************************************)
EXTENDS Integers, Sequences, FiniteSets, TLC

(***************************************************************************)
(* Bounds of the model.                                                    *)
(***************************************************************************)
\* highest minor revision number of a G_LIMMON_2.<n>.dec file of the archive
MaxRev == 2
\* number of direct merge_new_glimmon_to_db calls after the rebuild
MaxMerges == 2
\* number of recreate_db runs
MaxRebuilds == 2
\* highest set number of an entity of the TDB
MaxTdbSets == 2

(***************************************************************************)
(* Python values.  A dict key that may be missing is a sequence of length  *)
(* 0 (missing) or 1 (present).  A value bound into an SQL statement is a   *)
(* tagged cell: an integer/real number or a text.                          *)
(***************************************************************************)
None == <<>>

Some(v) == <<v>>

Has(o) == o # <<>>

Val(o) == o[1]

Num(n) == [num |-> n]

Txt(s) == [txt |-> s]

IsNum(c) == DOMAIN c = {"num"}

\* str.lower() / str.upper() on the names the model uses
Lower(s) ==
  CASE s = "A" -> "a" [] s = "B" -> "b" [] s = "C" -> "c" [] s = "SW" -> "sw"
    [] s = "ON" -> "on" [] s = "OFF" -> "off"
    [] s = "LIMIT" -> "limit" [] s = "Expected_State" -> "expected_state"
    [] OTHER -> s

Upper(s) ==
  CASE s = "a" -> "A" [] s = "b" -> "B" [] s = "c" -> "C" [] OTHER -> s

\* position of a text in Python's / SQLite's string order
StrOrd(s) ==
  CASE s = "a" -> 1 [] s = "b" -> 2 [] s = "c" -> 3 [] OTHER -> 0

\* the ascending sequence of a finite set of integers
RECURSIVE SetToSeq(_)
SetToSeq(S) ==
  IF S = {} THEN <<>>
  ELSE LET m == CHOOSE x \in S : \A y \in S : x <= y
       IN <<m>> \o SetToSeq(S \ {m})

\* every enumeration of a finite set (the iteration orders of a Python set)
RECURSIVE Perms(_)
Perms(S) ==
  IF S = {} THEN {<<>>}
  ELSE UNION {{<<x>> \o p : p \in Perms(S \ {x})} : x \in S}

Range(s) == {s[i] : i \in DOMAIN s}

(***************************************************************************)
(* read_glimmon: one revision's text to the glimmon dictionary.            *)
(***************************************************************************)
\* a set dictionary glimmon[name][setnum]
EmptySet ==
  [warning_low |-> None, caution_low |-> None, caution_high |-> None,
   warning_high |-> None, switchstate |-> None, expst |-> None,
   expected_state |-> None]

\* an entity dictionary glimmon[name]; sets maps the integer keys
EmptyEntity ==
  [type |-> None, setkeys |-> None, default |-> None, mlmtol |-> None,
   mlimsw |-> None, mlmenable |-> None, sets |-> <<>>]

\* the dictionary before the first line; name is the current-entity cursor
EmptyGlimmon ==
  [err |-> FALSE, name |-> None, order |-> <<>>, ents |-> <<>>,
   mlmdeftol |-> None, mlmthrow |-> None, revision |-> None, date |-> None]

\* glimmon.update({name: {}}): a new key goes last, an old one keeps its place
OpenEntity(g, nm) ==
  [g EXCEPT !.name = Some(nm),
            !.order = IF nm \in Range(g.order) THEN g.order
                      ELSE Append(g.order, nm),
            !.ents = (nm :> EmptyEntity) @@ g.ents]

\* a faulty MLIMIT branch, which keeps the type the entity already has
MlimitFirstType(e, ln) ==
  LET s0 == EmptySet
      s1 == IF Has(ln.switchstate)
            THEN [s0 EXCEPT !.switchstate = ln.switchstate] ELSE s0
      s2 == IF Has(ln.ppeng)
            THEN [s1 EXCEPT !.warning_low = Some(Val(ln.ppeng)[1]),
                            !.caution_low = Some(Val(ln.ppeng)[2]),
                            !.caution_high = Some(Val(ln.ppeng)[3]),
                            !.warning_high = Some(Val(ln.ppeng)[4])]
            ELSE s1
      s3 == IF Has(ln.expst) THEN [s2 EXCEPT !.expst = ln.expst] ELSE s2
      t1 == IF Has(ln.ppeng) THEN Some("limit") ELSE e.type
      t2 == IF Has(ln.expst) THEN Some("expected_state") ELSE t1
  IN [e EXCEPT !.sets = (ln.setnum :> s3) @@ e.sets,
               !.setkeys = IF Has(e.setkeys)
                           THEN Some(Append(Val(e.setkeys), ln.setnum))
                           ELSE Some(<<ln.setnum>>),
               !.default = IF ln.default THEN Some(ln.setnum) ELSE e.default,
               !.type = IF Has(e.type) THEN e.type ELSE t2]

\* the MLIMIT branch
Mlimit(e, ln) ==
  LET s0 == EmptySet
      s1 == IF Has(ln.switchstate)
            THEN [s0 EXCEPT !.switchstate = ln.switchstate] ELSE s0
      s2 == IF Has(ln.ppeng)
            THEN [s1 EXCEPT !.warning_low = Some(Val(ln.ppeng)[1]),
                            !.caution_low = Some(Val(ln.ppeng)[2]),
                            !.caution_high = Some(Val(ln.ppeng)[3]),
                            !.warning_high = Some(Val(ln.ppeng)[4])]
            ELSE s1
      s3 == IF Has(ln.expst) THEN [s2 EXCEPT !.expst = ln.expst] ELSE s2
      t1 == IF Has(ln.ppeng) THEN Some("limit") ELSE e.type
      t2 == IF Has(ln.expst) THEN Some("expected_state") ELSE t1
  IN [e EXCEPT !.sets = (ln.setnum :> s3) @@ e.sets,
               !.setkeys = IF Has(e.setkeys)
                           THEN Some(Append(Val(e.setkeys), ln.setnum))
                           ELSE Some(<<ln.setnum>>),
               !.default = IF ln.default THEN Some(ln.setnum) ELSE e.default,
               !.type = t2]

\* the number of words a branch reads of its line: words[2] of an MLIMIT
\* line, words[1] of the others
WordsRead(kw) == IF kw = "MLIMIT" THEN 3 ELSE 2

\* words[1] or words[2] of a line that has fewer words raises IndexError
TooShort(ln) == ln.nwords < WordsRead(ln.kw)

\* the body of the loop over the lines, for one line; err: an exception
\* (NameError of the unbound name, IndexError of a missing word) ended the call
ReadLine(g, ln) ==
  IF g.err THEN g
  ELSE IF ln.kw = "MLOAD" /\ ln.nwords = 2 THEN OpenEntity(g, ln.name)
  ELSE IF ln.kw = "MMSID" THEN
    IF TooShort(ln) THEN [g EXCEPT !.err = TRUE] ELSE OpenEntity(g, ln.name)
  ELSE IF ln.kw \in {"MLIMIT", "MLMTOL", "MLIMSW", "MLMENABLE"} THEN
    IF ~Has(g.name) \/ TooShort(ln) THEN [g EXCEPT !.err = TRUE]
    ELSE LET nm == Val(g.name)
             e == g.ents[nm]
             e2 == CASE ln.kw = "MLIMIT" -> Mlimit(e, ln)
                     [] ln.kw = "MLMTOL" -> [e EXCEPT !.mlmtol = Some(ln.n)]
                     [] ln.kw = "MLIMSW" -> [e EXCEPT !.mlimsw = Some(ln.msid)]
                     [] ln.kw = "MLMENABLE" -> [e EXCEPT !.mlmenable = Some(ln.n)]
         IN [g EXCEPT !.ents = (nm :> e2) @@ g.ents]
  ELSE IF ln.kw \in {"MLMDEFTOL", "MLMTHROW"} /\ TooShort(ln) THEN
    [g EXCEPT !.err = TRUE]
  ELSE IF ln.kw = "MLMDEFTOL" THEN [g EXCEPT !.mlmdeftol = Some(ln.n)]
  ELSE IF ln.kw = "MLMTHROW" THEN [g EXCEPT !.mlmthrow = Some(ln.n)]
  ELSE IF ln.kw = "#Revision" THEN [g EXCEPT !.revision = Some(ln.rev)]
  ELSE IF ln.kw = "#Date" THEN [g EXCEPT !.date = Some(ln.date)]
  ELSE g

RECURSIVE ReadLines(_, _)
ReadLines(g, lines) ==
  IF lines = <<>> THEN g ELSE ReadLines(ReadLine(g, Head(lines)), Tail(lines))

read_glimmon(lines) == ReadLines(EmptyGlimmon, lines)

(***************************************************************************)
(* The telemetry database (TDB) and the defaulting from it.                *)
(***************************************************************************)
Nan == [nan |-> TRUE]

\* np.isnan(arg) raises TypeError for a text and returns for every number
is_not_nan(arg) == DOMAIN arg = {"txt"}

\* get_tdb: the snapshot of a revision number
get_tdb(tdbs, revision) ==
  IF revision <= 130 THEN Some(tdbs["p007"])
  ELSE IF revision <= 228 THEN Some(tdbs["p009"])
  ELSE IF revision <= 245 THEN Some(tdbs["p010"])
  ELSE IF revision <= 249 THEN Some(tdbs["p011"])
  ELSE IF revision <= 256 THEN Some(tdbs["p012"])
  ELSE IF revision <= 260 THEN Some(tdbs["p013"])
  ELSE IF revision <= 342 THEN Some(tdbs["p014"])
  ELSE IF revision <= 359 THEN Some(tdbs["p015"])
  ELSE IF revision <= 407 THEN Some(tdbs["p016"])
  ELSE IF revision <= 999 THEN Some(tdbs["p017"])
  ELSE None

\* a faulty assign_sets, which keeps the 1-based set numbers of the TDB
assign_sets_one_based(dbsets) ==
  [EmptyEntity EXCEPT
     !.sets = dbsets,
     !.setkeys = Some(SetToSeq(DOMAIN dbsets))]

\* assign_sets: the sets of the TDB renumbered from 1-based to 0-based
assign_sets(dbsets) ==
  [EmptyEntity EXCEPT
     !.sets = [k \in {n - 1 : n \in DOMAIN dbsets} |-> dbsets[k + 1]],
     !.setkeys = Some([i \in 1..Cardinality(DOMAIN dbsets) |->
                         SetToSeq(DOMAIN dbsets)[i] - 1])]

\* a faulty dict.update, which merges the sets of one number key by key
OverlayDeep(base, over) ==
  [type |-> IF Has(over.type) THEN over.type ELSE base.type,
   setkeys |-> IF Has(over.setkeys) THEN over.setkeys ELSE base.setkeys,
   default |-> IF Has(over.default) THEN over.default ELSE base.default,
   mlmtol |-> IF Has(over.mlmtol) THEN over.mlmtol ELSE base.mlmtol,
   mlimsw |-> IF Has(over.mlimsw) THEN over.mlimsw ELSE base.mlimsw,
   mlmenable |-> IF Has(over.mlmenable) THEN over.mlmenable ELSE base.mlmenable,
   sets |-> [k \in DOMAIN over.sets \cup DOMAIN base.sets |->
               IF k \notin DOMAIN over.sets THEN base.sets[k]
               ELSE IF k \notin DOMAIN base.sets THEN over.sets[k]
               ELSE [f \in DOMAIN over.sets[k] |->
                       IF Has(over.sets[k][f]) THEN over.sets[k][f]
                       ELSE base.sets[k][f]]]]

\* dict.update: the keys of over replace those of base
Overlay(base, over) ==
  [type |-> IF Has(over.type) THEN over.type ELSE base.type,
   setkeys |-> IF Has(over.setkeys) THEN over.setkeys ELSE base.setkeys,
   default |-> IF Has(over.default) THEN over.default ELSE base.default,
   mlmtol |-> IF Has(over.mlmtol) THEN over.mlmtol ELSE base.mlmtol,
   mlimsw |-> IF Has(over.mlimsw) THEN over.mlimsw ELSE base.mlimsw,
   mlmenable |-> IF Has(over.mlmenable) THEN over.mlmenable ELSE base.mlmenable,
   sets |-> over.sets @@ base.sets]

\* the switch state of a set: the try/except around tdb[msid][sw][key]['state_code']
SwitchStateOf(switch, indkey) ==
  IF indkey \in DOMAIN switch /\ Has(switch[indkey].state_code)
  THEN switch[indkey].state_code ELSE Some("none")

\* the part of fill_limits and fill_states after assign_sets, which they share
FillCommon(sets0, typ, defnum, swmsid, switch, g, msid) ==
  LET ge == g.ents[Upper(msid)]
      l1 == [sets0 EXCEPT
               !.type = Some(typ),
               !.default = IF is_not_nan(defnum) THEN Some(defnum.num - 1)
                           ELSE Some(0)]
      l2 == IF is_not_nan(swmsid)
            THEN [l1 EXCEPT
                    !.mlimsw = Some(swmsid.txt),
                    !.sets = IF Has(switch)
                             THEN [k \in DOMAIN l1.sets |->
                                     [l1.sets[k] EXCEPT !.switchstate =
                                        SwitchStateOf(Val(switch), k + 1)]]
                             ELSE l1.sets]
            ELSE l1
      l3 == IF ~Has(ge.mlmtol) THEN [l2 EXCEPT !.mlmtol = g.mlmdeftol] ELSE l2
      l4 == IF ~Has(ge.mlmenable) THEN [l3 EXCEPT !.mlmenable = Some(1)] ELSE l3
  IN Overlay(ge, Overlay(l4, ge))

fill_limits(tdb, g, msid) ==
  [g EXCEPT !.ents = (Upper(msid) :>
      FillCommon(assign_sets(Val(tdb[msid].limit)), "limit",
                 tdb[msid].limit_default_set_num, tdb[msid].limit_switch_msid,
                 tdb[msid].lim_switch, g, msid)) @@ g.ents]

\* the loop of fill_states that renames expected_state to expst
RenameExpst(e) ==
  [e EXCEPT !.sets = [k \in DOMAIN e.sets |->
     IF Has(e.sets[k].expected_state)
     THEN [e.sets[k] EXCEPT !.expst = e.sets[k].expected_state,
                            !.expected_state = None]
     ELSE e.sets[k]]]

fill_states(tdb, g, msid) ==
  [g EXCEPT !.ents = (Upper(msid) :>
      FillCommon(RenameExpst(assign_sets(Val(tdb[msid].exp_state))),
                 "expected_state",
                 tdb[msid].es_default_set_num, tdb[msid].es_switch_msid,
                 tdb[msid].es_switch, g, msid)) @@ g.ents]

update_msid(msid, tdb, g) ==
  IF msid \in DOMAIN tdb
  THEN IF Has(tdb[msid].limit) THEN fill_limits(tdb, g, msid)
       ELSE IF Has(tdb[msid].exp_state) THEN fill_states(tdb, g, msid)
       ELSE g
  ELSE g

\* for msid in list(g.keys()): update_msid(msid.lower(), tdb, g)
RECURSIVE UpdateAll(_, _, _)
UpdateAll(names, tdb, g) ==
  IF names = <<>> THEN g
  ELSE UpdateAll(Tail(names), tdb, update_msid(Lower(Head(names)), tdb, g))

(***************************************************************************)
(* GLimit: the glimmon dictionary flattened to rows.                       *)
(***************************************************************************)
\* int(self.revision[2:]): the digits after "2." of a revision <<major, minor>>
RevNum(revision) == revision[2]

\* the for loop of filter_msids, which removes from the list it iterates over
RECURSIVE FilterLoop(_, _, _)
FilterLoop(gdb, msids, i) ==
  IF i > Len(msids) THEN msids
  ELSE IF ~Has(gdb.ents[msids[i]].type)
       THEN FilterLoop(gdb, SubSeq(msids, 1, i - 1) \o
                            SubSeq(msids, i + 1, Len(msids)), i + 1)
       ELSE FilterLoop(gdb, msids, i + 1)

\* filter_msids raises KeyError when one of the five file-wide keys is missing
filter_msids_ok(gdb) ==
  /\ Has(gdb.revision) /\ Has(gdb.mlmdeftol) /\ Has(gdb.mlmthrow) /\ Has(gdb.date)

filter_msids(gdb) == FilterLoop(gdb, gdb.order, 1)

\* one cell: the value of a key, through conv, or the text written if missing
CellOf(o, missing) == IF Has(o) THEN Num(Val(o)) ELSE Txt(missing)

TextOf(o) == IF Has(o) THEN Txt(Lower(Val(o))) ELSE Txt("none")

\* the row of one set of a limit entity
LimitRow(gdb, msid, setkey) ==
  LET mdata == gdb.ents[msid]
      sd == mdata.sets[setkey]
  IN [msid |-> Lower(msid), setkey |-> setkey,
      datesec |-> Val(gdb.date), date |-> Val(gdb.date),
      modversion |-> RevNum(Val(gdb.revision)),
      mlmenable |-> CellOf(mdata.mlmenable, "1"),
      mlmtol |-> CellOf(mdata.mlmtol, "1"),
      default_set |-> CellOf(mdata.default, "0"),
      mlimsw |-> TextOf(mdata.mlimsw),
      caution_high |-> CellOf(sd.caution_high, "none"),
      caution_low |-> CellOf(sd.caution_low, "none"),
      warning_high |-> CellOf(sd.warning_high, "none"),
      warning_low |-> CellOf(sd.warning_low, "none"),
      switchstate |-> TextOf(sd.switchstate)]

\* the row of one set of an expected-state entity
StateRow(gdb, msid, setkey) ==
  LET mdata == gdb.ents[msid]
      sd == mdata.sets[setkey]
  IN [msid |-> Lower(msid), setkey |-> setkey,
      datesec |-> Val(gdb.date), date |-> Val(gdb.date),
      modversion |-> RevNum(Val(gdb.revision)),
      mlmenable |-> CellOf(mdata.mlmenable, "1"),
      mlmtol |-> CellOf(mdata.mlmtol, "1"),
      default_set |-> CellOf(mdata.default, "0"),
      mlimsw |-> TextOf(mdata.mlimsw),
      expst |-> TextOf(sd.expst),
      switchstate |-> TextOf(sd.switchstate)]

\* the rows of one entity: the body of the loop over self.msids
RECURSIVE SetRows(_, _, _, _)
SetRows(gdb, msid, setkeys, typ) ==
  IF setkeys = <<>> THEN <<>>
  ELSE (IF Head(setkeys) \in DOMAIN gdb.ents[msid].sets
        THEN <<IF typ = "limit" THEN LimitRow(gdb, msid, Head(setkeys))
               ELSE StateRow(gdb, msid, Head(setkeys))>>
        ELSE <<>>) \o SetRows(gdb, msid, Tail(setkeys), typ)

EntityRows(gdb, msid, typ) ==
  LET mdata == gdb.ents[msid]
  IN IF mdata.mlmenable = Some(0) THEN <<>>
     ELSE IF ~Has(mdata.type) THEN <<>>
     ELSE IF Lower(Val(mdata.type)) = typ
          THEN SetRows(gdb, msid, Val(mdata.setkeys), typ)
          ELSE <<>>

RECURSIVE AllRows(_, _, _)
AllRows(gdb, msids, typ) ==
  IF msids = <<>> THEN <<>>
  ELSE EntityRows(gdb, Head(msids), typ) \o AllRows(gdb, Tail(msids), typ)

\* int(row[5]) == 0
RowDisabled(row) ==
  IF IsNum(row.mlmenable) THEN row.mlmenable.num = 0
  ELSE row.mlmenable.txt = "0"

\* for n, row in enumerate(rows): if int(row[5]) == 0: rows.pop(n)
RECURSIVE DiscardLoop(_, _)
DiscardLoop(rows, n) ==
  IF n > Len(rows) THEN rows
  ELSE IF RowDisabled(rows[n])
       THEN DiscardLoop(SubSeq(rows, 1, n - 1) \o
                        SubSeq(rows, n + 1, Len(rows)), n + 1)
       ELSE DiscardLoop(rows, n + 1)

\* gen_row_data: <<limitrowdata, esstaterowdata>>
gen_row_data(gdb, discard_disabled_sets) ==
  LET msids == filter_msids(gdb)
      lim == AllRows(gdb, msids, "limit")
      est == AllRows(gdb, msids, "expected_state")
  IN IF discard_disabled_sets
     THEN <<DiscardLoop(lim, 1), DiscardLoop(est, 1)>>
     ELSE <<lim, est>>

\* the entities gen_row_data logs the "has no limits or expected states"
\* warning for: those of self.msids that are not disabled and have no type
gen_row_warnings(gdb) ==
  SelectSeq(filter_msids(gdb),
            LAMBDA msid : /\ gdb.ents[msid].mlmenable # Some(0)
                          /\ ~Has(gdb.ents[msid].type))

\* a faulty table, whose columns are declared without a type: a text stays
\* the text it was bound as
NoAffinity(c) == c

(***************************************************************************)
(* The SQLite tables.  A table is the sequence of its rows in rowid order. *)
(***************************************************************************)
\* INTEGER and REAL column affinity: a text that is a number is stored as one
NumAffinity(c) ==
  IF IsNum(c) THEN c
  ELSE IF c.txt = "0" THEN Num(0)
  ELSE IF c.txt = "1" THEN Num(1)
  ELSE c

\* INSERT INTO limits / expected_states: the row as the table stores it
Stored(row, tabletype) ==
  LET r == [row EXCEPT !.mlmenable = NumAffinity(@), !.mlmtol = NumAffinity(@),
                       !.default_set = NumAffinity(@)]
  IN IF Lower(tabletype) = "limit"
     THEN [r EXCEPT !.caution_high = NumAffinity(@), !.caution_low = NumAffinity(@),
                    !.warning_high = NumAffinity(@), !.warning_low = NumAffinity(@)]
     ELSE r

StoredAll(rows, tabletype) == [i \in DOMAIN rows |-> Stored(rows[i], tabletype)]

\* the table of a table type: tabletype.lower() == 'limit' / 'expected_state'
TableOf(tabletype) ==
  IF Lower(tabletype) = "limit" THEN "limits" ELSE "expected_states"

TableTypes == {"limit", "expected_state"}

\* a faulty test of the table type, with no else branch
NoTabletypeError(tabletype) == FALSE

\* the else branch of every test of the table type: raise_tabletype_error
TabletypeError(tabletype) == Lower(tabletype) \notin TableTypes

KeyOf(row) == <<row.msid, row.setkey>>

\* the rows selected by
\*   a.modversion = (SELECT MAX(b.modversion) ... WHERE a.msid = b.msid and a.setkey = b.setkey)
MostRecent(tbl) ==
  {i \in DOMAIN tbl :
     \A j \in DOMAIN tbl :
        KeyOf(tbl[j]) = KeyOf(tbl[i]) => tbl[j].modversion <= tbl[i].modversion}

\* the msid/set pairs of the result list; every caller makes a set of the list
query_most_recent_msids_sets(db, tabletype) ==
  {KeyOf(db[TableOf(tabletype)][i]) : i \in MostRecent(db[TableOf(tabletype)])}

\* a faulty query_most_recent_disabled_msids_sets, which finds no disabled pair
query_no_disabled_msids_sets(db, tabletype) == {}

query_most_recent_disabled_msids_sets(db, tabletype) ==
  LET tbl == db[TableOf(tabletype)]
  IN {KeyOf(tbl[i]) : i \in {j \in MostRecent(tbl) : tbl[j].mlmenable = Num(0)}}

\* a faulty column list, which compares the pair and the enable flag only
ChangeableEnableOnly(row, tabletype) ==
  [msid |-> row.msid, setkey |-> row.setkey, mlmenable |-> row.mlmenable]

\* the columns a user can edit: all but datesec, date and modversion
Changeable(row, tabletype) ==
  IF Lower(tabletype) = "limit"
  THEN [msid |-> row.msid, setkey |-> row.setkey, mlmenable |-> row.mlmenable,
        mlmtol |-> row.mlmtol, default_set |-> row.default_set,
        mlimsw |-> row.mlimsw, caution_high |-> row.caution_high,
        caution_low |-> row.caution_low, warning_high |-> row.warning_high,
        warning_low |-> row.warning_low, switchstate |-> row.switchstate]
  ELSE [msid |-> row.msid, setkey |-> row.setkey, mlmenable |-> row.mlmenable,
        mlmtol |-> row.mlmtol, default_set |-> row.default_set,
        mlimsw |-> row.mlimsw, expst |-> row.expst,
        switchstate |-> row.switchstate]

query_most_recent_changeable_data(db, tabletype) ==
  LET tbl == db[TableOf(tabletype)]
  IN {Changeable(tbl[i], tabletype) : i \in MostRecent(tbl)}

\* fetchone() of the most recent rows of one msid/set pair: the first in rowid order
query_all_cols_one_row_to_copy(db, msidset, tabletype) ==
  LET tbl == db[TableOf(tabletype)]
      hits == {i \in MostRecent(tbl) : KeyOf(tbl[i]) = msidset}
  IN tbl[CHOOSE i \in hits : \A j \in hits : i <= j]

\* key=lambda row: (row[0], row[1]) compared as Python compares tuples
KeyLess(k1, k2) ==
  \/ StrOrd(k1[1]) < StrOrd(k2[1])
  \/ StrOrd(k1[1]) = StrOrd(k2[1]) /\ k1[2] < k2[2]

\* sorted(): a stable sort of a list of msid/set pairs
RECURSIVE InsertByKey(_, _)
InsertByKey(s, x) ==
  IF s = <<>> THEN <<x>>
  ELSE IF KeyLess(x, Head(s)) THEN <<x>> \o s
  ELSE <<Head(s)>> \o InsertByKey(Tail(s), x)

RECURSIVE SortedByKey(_)
SortedByKey(s) ==
  IF s = <<>> THEN <<>>
  ELSE InsertByKey(SortedByKey(SubSeq(s, 1, Len(s) - 1)), s[Len(s)])

(***************************************************************************)
(* The revision files of the archive.                                      *)
(***************************************************************************)
MLOAD(nm) == [kw |-> "MLOAD", name |-> nm, nwords |-> 2]

\* MLIMIT SET <setnum> [PPENG wl cl ch wh] [EXPST state]
MLIMIT(setnum, ppeng, expst) ==
  [kw |-> "MLIMIT", setnum |-> setnum, default |-> FALSE, switchstate |-> None,
   ppeng |-> ppeng, expst |-> expst,
   nwords |-> 3 + (IF Has(ppeng) THEN 5 ELSE 0) + (IF Has(expst) THEN 2 ELSE 0)]

MLMENABLE(n) == [kw |-> "MLMENABLE", n |-> n, nwords |-> 2]

MLMTOL(n) == [kw |-> "MLMTOL", n |-> n, nwords |-> 2]

\* the declarations of entity A that a revision may hold
DeclsA ==
  { <<>>,
    <<MLOAD("A"), MLIMIT(0, Some(<<1, 2, 3, 4>>), None)>>,
    <<MLOAD("A"), MLIMIT(0, Some(<<1, 2, 5, 4>>), None)>>,
    <<MLOAD("A"), MLIMIT(0, Some(<<1, 2, 3, 4>>), None),
                  MLIMIT(0, Some(<<1, 2, 3, 4>>), None)>>,
    <<MLOAD("A"), MLIMIT(0, Some(<<1, 2, 3, 4>>), None), MLMENABLE(0)>>,
    <<MLOAD("A"), MLIMIT(0, None, Some("ON"))>> }

\* the declaration of entity B, whose limits are in the TDB
DeclB == <<MLOAD("B")>>

\* a second $Date comment in a file: the last one read is the date of the file
DateLine(date) == [kw |-> "#Date", date |-> date]

\* the declarations a revision file may hold, and a file of no declaration
\* that carries the date of revision 1
Bodies ==
  DeclsA \cup {<<MLOAD("A"), MLIMIT(0, Some(<<1, 2, 3, 4>>), None)>> \o DeclB}
         \cup {<<DateLine(1)>>}

\* the text of G_LIMMON_2.<v>.dec: the revision and date comments, the two
\* file-wide scalars, and the declarations
FileText(v, body) ==
  <<[kw |-> "#Revision", rev |-> <<2, v>>], [kw |-> "#Date", date |-> v],
    [kw |-> "MLMDEFTOL", n |-> 3, nwords |-> 2],
    [kw |-> "MLMTHROW", n |-> 2, nwords |-> 2]>> \o body

\* a TDB entry with limit sets only
TdbLimit(sets) ==
  [limit |-> Some(sets), exp_state |-> None,
   limit_default_set_num |-> Nan, limit_switch_msid |-> Nan, lim_switch |-> None,
   es_default_set_num |-> Nan, es_switch_msid |-> Nan, es_switch |-> None]

TdbSet(wl, cl, ch, wh) ==
  [EmptySet EXCEPT !.warning_low = Some(wl), !.caution_low = Some(cl),
                   !.caution_high = Some(ch), !.warning_high = Some(wh)]

\* tdb_all.pkl as the store operations see it: entity b has two limit sets
SnapshotIds ==
  {"p007", "p009", "p010", "p011", "p012", "p013", "p014", "p015", "p016", "p017"}

Tdbs ==
  [id \in SnapshotIds |->
     ("b" :> TdbLimit((1 :> TdbSet(10, 20, 30, 40)) @@ (2 :> TdbSet(11, 21, 31, 41))))]

(***************************************************************************)
(* The state.                                                              *)
(***************************************************************************)
VARIABLES
  files,        \* files[v]: the declarations of G_LIMMON_2.<v>.dec, files[0] of
                \* G_LIMMON_P007A.dec; None while the file does not exist
  dbexists,     \* the production store file exists
  olddb,        \* the production store: limits, expected_states, versions,
                \* build_fingerprints
  newdb,        \* temporary_db.sqlite3
  pc,           \* the position of the running merge, "idle" between calls
  cur,          \* the glimmon dictionary of the running merge
  queue,        \* recreate_db: the revisions still to merge
  rebuilding,   \* recreate_db is running
  nmerges,      \* direct merge calls made
  nrebuilds,    \* recreate_db calls made
  pre,          \* history: the production store when the running merge began
  log,          \* history: the rows each pass of the running merge committed
  rebuilt,      \* history: the tables as read after each completed recreate_db
  fillin,       \* a function on its own: the input
  fillout       \* a function on its own: what it returned

vars ==
  <<files, dbexists, olddb, newdb, pc, cur, queue, rebuilding, nmerges,
    nrebuilds, pre, log, rebuilt, fillin, fillout>>

EmptyDb ==
  [limits |-> <<>>, expected_states |-> <<>>, versions |-> <<>>,
   build_fingerprints |-> <<>>]

Passes ==
  <<"limit_added", "limit_deleted", "limit_modified",
    "expected_state_added", "expected_state_deleted", "expected_state_modified">>

EmptyLog == [p \in Range(Passes) |-> <<>>]

\* no merge has run on the store; done: the last merge ran to its end; again: the
\* running merge is of the file the last call merged to its end; base: the
\* running merge is of the file whose last merges did not run to their end,
\* and this was the store before the first of them
NoCur ==
  [revision |-> None, date |-> None, file |-> 0, done |-> FALSE, again |-> FALSE,
   base |-> None]

(***************************************************************************)
(* create_db, compute_fingerprints and the three merge passes.             *)
(***************************************************************************)
\* a faulty create_limit_table, which keeps a table that exists
create_limit_table_if_missing(db) == db

\* DROP TABLE IF EXISTS limits, then CREATE TABLE limits
create_limit_table(db) == [db EXCEPT !.limits = <<>>]

create_esstate_table(db) == [db EXCEPT !.expected_states = <<>>]

create_version_table(db) == [db EXCEPT !.versions = <<>>]

\* NewLimitDB.__init__ on the temporary file as the last call left it (rmtree
\* fails on a file and the failure is ignored): the three tables are dropped
\* and written again; the fingerprint table of the temporary file is kept
\* (CREATE TABLE IF NOT EXISTS)
NewLimitDB(temp, limitrowdata, esstaterowdata, version, date, datesec) ==
  LET db1 == [create_limit_table(temp) EXCEPT
                !.limits = @ \o StoredAll(limitrowdata, "limit")]
      db2 == [create_esstate_table(db1) EXCEPT
                !.expected_states = @ \o StoredAll(esstaterowdata, "expected_state")]
  IN [create_version_table(db2) EXCEPT
        !.versions = Append(@, [version |-> version, datesec |-> datesec,
                                date |-> date])]

create_db(temp, gdb, discard_disabled_sets) ==
  LET rd == gen_row_data(gdb, discard_disabled_sets)
  IN NewLimitDB(temp, rd[1], rd[2], RevNum(Val(gdb.revision)),
                Val(gdb.date), Val(gdb.date))

\* read_glimmon, get_tdb and the update_msid loop: the dictionary a merge works on
Load(tdbs, v, body) ==
  LET g == read_glimmon(FileText(v, body))
  IN UpdateAll(g.order, Val(get_tdb(tdbs, RevNum(Val(g.revision)))), g)

LoadGlimmon(v, body) == Load(Tdbs, v, body)

\* ORDER BY datesec, msid, setkey
RowOrderLeq(r1, r2) ==
  \/ r1.datesec < r2.datesec
  \/ r1.datesec = r2.datesec /\ ~KeyLess(KeyOf(r2), KeyOf(r1))

\* ORDER BY datesec, version
VersionOrderLeq(r1, r2) ==
  \/ r1.datesec < r2.datesec
  \/ r1.datesec = r2.datesec /\ r1.version <= r2.version

\* the result lists an ORDER BY may give: rows that tie come in any order
RECURSIVE OrderedReads(_, _, _)
OrderedReads(tbl, S, byversion) ==
  IF S = {} THEN {<<>>}
  ELSE LET first == {i \in S : \A j \in S :
                       IF byversion THEN VersionOrderLeq(tbl[i], tbl[j])
                       ELSE RowOrderLeq(tbl[i], tbl[j])}
       IN UNION {{<<tbl[i]>> \o r : r \in OrderedReads(tbl, S \ {i}, byversion)} :
                 i \in first}

LimitReads(db) == OrderedReads(db.limits, DOMAIN db.limits, FALSE)

StateReads(db) ==
  OrderedReads(db.expected_states, DOMAIN db.expected_states, FALSE)

VersionReads(db) == OrderedReads(db.versions, DOMAIN db.versions, TRUE)

\* SELECT MAX(version) FROM versions
MaxVersion(db) ==
  CHOOSE m \in {db.versions[i].version : i \in DOMAIN db.versions} :
    \A i \in DOMAIN db.versions : db.versions[i].version <= m

\* a faulty upsert, which is a plain INSERT
UpsertInsert(fps, fp) == Append(fps, fp)

\* INSERT OR REPLACE: the row of the same version is deleted, the new one appended
Upsert(fps, fp) ==
  Append(SelectSeq(fps, LAMBDA r : r.version # fp.version), fp)

\* compute_fingerprints; a hash is modelled by the list it is the hash of
\* (db_sha256, db_size_bytes and created_at are not modelled)
compute_fingerprints(db, reads, source_file, source_revision, source_date) ==
  [db EXCEPT !.build_fingerprints =
     Upsert(@, [version |-> MaxVersion(db),
                limit_hash |-> reads[1], state_hash |-> reads[2],
                version_hash |-> reads[3],
                limit_count |-> Len(reads[1]), state_count |-> Len(reads[2]),
                version_count |-> Len(reads[3]),
                source_file |-> source_file, source_revision |-> source_revision,
                source_date |-> source_date])]

\* a faulty commit_new_rows, which writes with INSERT OR REPLACE on the pair
commit_new_rows_replace(db, rows, tabletype) ==
  [db EXCEPT ![TableOf(tabletype)] =
     SelectSeq(@, LAMBDA r : \A i \in DOMAIN rows : KeyOf(r) # KeyOf(rows[i]))
       \o StoredAll(rows, tabletype)]

\* commit_new_rows, for the two table types
commit_new_rows(db, rows, tabletype) ==
  [db EXCEPT ![TableOf(tabletype)] = @ \o StoredAll(rows, tabletype)]

\* a faulty AddedSet, which takes the pairs last disabled in the store for new
AddedSetOverDisabled(new, old, tabletype) ==
  query_most_recent_msids_sets(new, tabletype) \
    (query_most_recent_msids_sets(old, tabletype) \
       query_most_recent_disabled_msids_sets(old, tabletype))

\* merge_added_msidsets: what is in newrows but not in oldrows
AddedSet(new, old, tabletype) ==
  query_most_recent_msids_sets(new, tabletype) \
    query_most_recent_msids_sets(old, tabletype)

\* a faulty DeletedSet, which does not take the pairs of newrows out of oldrows
DeletedSetAllOld(new, old, tabletype) ==
  LET all_new_rows == query_most_recent_msids_sets(new, tabletype)
      all_old_rows == query_most_recent_msids_sets(old, tabletype)
      all_old_disabled_rows == query_most_recent_disabled_msids_sets(old, tabletype)
      disabled_not_in_newrows == all_old_disabled_rows \ all_new_rows
  IN all_old_rows \ disabled_not_in_newrows

\* merge_deleted_msidsets: what is in oldrows but not in newrows, after newrows
\* was extended by the pairs last disabled in the store
DeletedSet(new, old, tabletype) ==
  LET all_new_rows == query_most_recent_msids_sets(new, tabletype)
      all_old_rows == query_most_recent_msids_sets(old, tabletype)
      all_old_disabled_rows == query_most_recent_disabled_msids_sets(old, tabletype)
      disabled_not_in_newrows == all_old_disabled_rows \ all_new_rows
  IN all_old_rows \ (all_new_rows \cup disabled_not_in_newrows)

\* merge_modified_msidsets: the changeable tuples of new that old does not hold
ModifiedSet(new, old, tabletype) ==
  query_most_recent_changeable_data(new, tabletype) \
    query_most_recent_changeable_data(old, tabletype)

\* a faulty DeactivatedRow, which stamps the row and leaves its enable flag
DeactivatedRowStillEnabled(deactrow, version, datesec, date) ==
  [deactrow EXCEPT !.datesec = datesec, !.date = date, !.modversion = version]

\* the row merge_deleted_msidsets writes from the store's row of a pair
DeactivatedRow(deactrow, version, datesec, date) ==
  [deactrow EXCEPT !.datesec = datesec, !.date = date, !.modversion = version,
                   !.mlmenable = Num(0)]

(***************************************************************************)
(* The operations.                                                         *)
(***************************************************************************)
PassOf(tabletype, kind) ==
  CASE tabletype = "limit" /\ kind = "added" -> "limit_added"
    [] tabletype = "limit" /\ kind = "deleted" -> "limit_deleted"
    [] tabletype = "limit" /\ kind = "modified" -> "limit_modified"
    [] tabletype = "expected_state" /\ kind = "added" -> "expected_state_added"
    [] tabletype = "expected_state" /\ kind = "deleted" -> "expected_state_deleted"
    [] tabletype = "expected_state" /\ kind = "modified" -> "expected_state_modified"

\* a faulty order of the calls, with commit_new_version_row ahead of the last
\* pass
NextPcVersionEarly(p) ==
  CASE p = "limit_added" -> "limit_deleted"
    [] p = "limit_deleted" -> "limit_modified"
    [] p = "limit_modified" -> "expected_state_added"
    [] p = "expected_state_added" -> "expected_state_deleted"
    [] p = "expected_state_deleted" -> "version"
    [] p = "version" -> "expected_state_modified"
    [] p = "expected_state_modified" -> "fingerprint"
    [] p = "fingerprint" -> "idle"

\* the order of the calls in merge_new_glimmon_to_db
NextPc(p) ==
  CASE p = "limit_added" -> "limit_deleted"
    [] p = "limit_deleted" -> "limit_modified"
    [] p = "limit_modified" -> "expected_state_added"
    [] p = "expected_state_added" -> "expected_state_deleted"
    [] p = "expected_state_deleted" -> "expected_state_modified"
    [] p = "expected_state_modified" -> "version"
    [] p = "version" -> "fingerprint"
    [] p = "fingerprint" -> "idle"

\* get_glimmon_versions: the revisions of the file names, sorted
RECURSIVE InsertVersion(_, _)
InsertVersion(s, x) ==
  IF s = <<>> THEN <<x>>
  ELSE IF x < Head(s) THEN <<x>> \o s
  ELSE <<Head(s)>> \o InsertVersion(Tail(s), x)

\* list.sort()
RECURSIVE SortVersions(_)
SortVersions(s) ==
  IF s = <<>> THEN <<>>
  ELSE InsertVersion(SortVersions(Tail(s)), Head(s))

\* a faulty get_glimmon_versions, which returns the revisions in glob order
get_glimmon_versions_unsorted(glimmon_files) == glimmon_files

get_glimmon_versions(glimmon_files) == SortVersions(glimmon_files)

\* the tables as the tests read them (querydatabase)
Snapshots(db) ==
  {[limits |-> l, expected_states |-> s, versions |-> v] :
     l \in LimitReads(db), s \in StateReads(db), v \in VersionReads(db)}

Reads(db) == LimitReads(db) \X StateReads(db) \X VersionReads(db)

\* the first lines of merge_new_glimmon_to_db, up to and including create_db
MergeBegin(v) ==
  LET g == LoadGlimmon(v, Val(files[v]))
  IN /\ newdb' = create_db(newdb, g, TRUE)
     /\ cur' = [revision |-> g.revision, date |-> g.date, file |-> v,
                 done |-> FALSE, again |-> (cur.done /\ cur.file = v),
                 base |-> IF Has(cur.revision) /\ ~cur.done /\ cur.file = v
                          THEN IF Has(cur.base) THEN cur.base ELSE Some(pre)
                          ELSE None]
     /\ pre' = olddb
     /\ log' = EmptyLog
     /\ pc' = "limit_added"

\* a pass has committed rows
PassCommit(tabletype, kind, rows) ==
  /\ olddb' = commit_new_rows(olddb, rows, tabletype)
  /\ log' = [log EXCEPT ![PassOf(tabletype, kind)] = StoredAll(rows, tabletype)]
  /\ pc' = NextPc(pc)
  /\ UNCHANGED <<files, dbexists, newdb, cur, queue, rebuilding, nmerges,
                 nrebuilds, pre, rebuilt, fillin, fillout>>

\* addrows of merge_added_msidsets, for one iteration order of the set
AddRows(new, old, tabletype, order) ==
  LET not_in_oldrows == SortedByKey(order)
  IN [i \in DOMAIN not_in_oldrows |->
        query_all_cols_one_row_to_copy(new, not_in_oldrows[i], tabletype)]

\* a faulty merge_deleted_msidsets, which returns early on a temporary store
\* without rows
DeactivateRowsUnlessEmpty(new, old, tabletype, order) ==
  IF new[TableOf(tabletype)] = <<>> THEN <<>>
  ELSE LET not_in_newrows == SortedByKey(order)
           vr == new.versions[1]
       IN [i \in DOMAIN not_in_newrows |->
             DeactivatedRow(
               query_all_cols_one_row_to_copy(old, not_in_newrows[i], tabletype),
               vr.version, vr.datesec, vr.date)]

\* deactivaterows of merge_deleted_msidsets
DeactivateRows(new, old, tabletype, order) ==
  LET not_in_newrows == SortedByKey(order)
      vr == new.versions[1]
  IN [i \in DOMAIN not_in_newrows |->
        DeactivatedRow(
          query_all_cols_one_row_to_copy(old, not_in_newrows[i], tabletype),
          vr.version, vr.datesec, vr.date)]

\* modrows of merge_modified_msidsets
ModRows(new, old, tabletype, order) ==
  LET modified_rows == SortedByKey([i \in DOMAIN order |-> KeyOf(order[i])])
  IN [i \in DOMAIN modified_rows |->
        query_all_cols_one_row_to_copy(new, modified_rows[i], tabletype)]

merge_added_msidsets(tabletype) ==
  /\ pc = PassOf(tabletype, "added")
  /\ \E order \in Perms(AddedSet(newdb, olddb, tabletype)) :
       PassCommit(tabletype, "added", AddRows(newdb, olddb, tabletype, order))

merge_deleted_msidsets(tabletype) ==
  /\ pc = PassOf(tabletype, "deleted")
  /\ \E order \in Perms(DeletedSet(newdb, olddb, tabletype)) :
       PassCommit(tabletype, "deleted",
                  DeactivateRows(newdb, olddb, tabletype, order))

merge_modified_msidsets(tabletype) ==
  /\ pc = PassOf(tabletype, "modified")
  /\ \E order \in Perms(ModifiedSet(newdb, olddb, tabletype)) :
       PassCommit(tabletype, "modified", ModRows(newdb, olddb, tabletype, order))

\* a faulty versions table, where only the version column is UNIQUE
IntegrityErrorOnVersion(versions, vr) ==
  \E i \in DOMAIN versions : versions[i].version = vr.version

\* versions(version INTEGER UNIQUE, datesec REAL UNIQUE, date TEXT UNIQUE): the
\* INSERT of a row fails when one of its three cells is in the table already
IntegrityError(versions, vr) ==
  \E i \in DOMAIN versions :
    \/ versions[i].version = vr.version
    \/ versions[i].datesec = vr.datesec
    \/ versions[i].date = vr.date

\* the versions table is UNIQUE in version, datesec and date: a second row of a
\* value raises sqlite3.IntegrityError, which ends the call
commit_new_version_row ==
  /\ pc = "version"
  /\ LET vr == newdb.versions[1]
         clash == IntegrityError(olddb.versions, vr)
     IN IF clash
        THEN /\ pc' = "idle" /\ queue' = <<>> /\ rebuilding' = FALSE
             /\ UNCHANGED olddb
        ELSE /\ pc' = NextPc(pc)
             /\ olddb' = [olddb EXCEPT !.versions = Append(@, vr)]
             /\ UNCHANGED <<queue, rebuilding>>
  /\ UNCHANGED <<files, dbexists, newdb, cur, nmerges, nrebuilds, pre, log,
                 rebuilt, fillin, fillout>>

\* the end of merge_new_glimmon_to_db: compute_fingerprints, the two close()
\* calls and the rmtree of the temporary file, which fails on a file and is
\* ignored; when it was the last merge of recreate_db the rebuild is complete
MergeEnd ==
  /\ pc = "fingerprint"
  /\ \E reads \in Reads(olddb) :
       olddb' = compute_fingerprints(olddb, reads, cur.file, cur.revision, cur.date)
  /\ pc' = NextPc(pc)
  /\ cur' = [cur EXCEPT !.done = TRUE]
  /\ IF rebuilding /\ queue = <<>>
     THEN /\ rebuilding' = FALSE
          /\ \E snap \in Snapshots(olddb) : rebuilt' = Append(rebuilt, snap)
     ELSE UNCHANGED <<rebuilding, rebuilt>>
  /\ UNCHANGED <<files, dbexists, newdb, queue, nmerges, nrebuilds, pre,
                 log, fillin, fillout>>

\* recreate_db up to its loop: the base file is read as revision 2.0, the
\* temporary store is copied over the production file and fingerprinted
recreate_db ==
  /\ pc = "idle" /\ queue = <<>> /\ nrebuilds < MaxRebuilds
  /\ Has(files[0])
  /\ LET g == LoadGlimmon(0, Val(files[0]))
         temp == create_db(newdb, g, TRUE)
     IN /\ newdb' = temp
        /\ \E reads \in Reads(temp) :
             olddb' = compute_fingerprints(temp, reads, 0, g.revision, g.date)
        /\ \E glimmon_files \in Perms({v \in 1..MaxRev : Has(files[v])}) :
             /\ queue' = get_glimmon_versions(glimmon_files)
             /\ rebuilding' = (glimmon_files # <<>>)
             /\ IF glimmon_files = <<>>
                THEN \E snap \in Snapshots(temp) : rebuilt' = Append(rebuilt, snap)
                ELSE UNCHANGED rebuilt
  /\ dbexists' = TRUE
  /\ nrebuilds' = nrebuilds + 1
  /\ cur' = NoCur /\ pre' = EmptyDb /\ log' = EmptyLog
  /\ UNCHANGED <<files, pc, nmerges, fillin, fillout>>

\* the loop of recreate_db calls merge_new_glimmon_to_db for the next revision
RecreateDbNext ==
  /\ pc = "idle" /\ queue # <<>>
  /\ MergeBegin(Head(queue))
  /\ queue' = Tail(queue)
  /\ UNCHANGED <<files, dbexists, olddb, rebuilding, nmerges, nrebuilds, rebuilt,
                 fillin, fillout>>

\* a direct call of merge_new_glimmon_to_db on a file of the archive
merge_new_glimmon_to_db(v) ==
  /\ pc = "idle" /\ queue = <<>> /\ dbexists
  /\ nmerges < MaxMerges
  /\ Has(files[v])
  /\ MergeBegin(v)
  /\ nmerges' = nmerges + 1
  /\ UNCHANGED <<files, dbexists, olddb, queue, rebuilding, nrebuilds, rebuilt,
                 fillin, fillout>>

\* a new revision file is put into the archive
Publish(v, body) ==
  /\ pc = "idle" /\ queue = <<>>
  /\ ~Has(files[v])
  /\ files' = [files EXCEPT ![v] = Some(body)]
  /\ UNCHANGED <<dbexists, olddb, newdb, pc, cur, queue, rebuilding, nmerges,
                 nrebuilds, pre, log, rebuilt, fillin, fillout>>

\* the process is stopped between two commits of a merge
Abort ==
  /\ pc # "idle"
  /\ pc' = "idle" /\ queue' = <<>> /\ rebuilding' = FALSE
  /\ UNCHANGED <<files, dbexists, olddb, newdb, cur, nmerges, nrebuilds, pre,
                 log, rebuilt, fillin, fillout>>


InitStore ==
  /\ dbexists = FALSE /\ olddb = EmptyDb /\ newdb = EmptyDb
  /\ pc = "idle" /\ cur = NoCur /\ queue = <<>> /\ rebuilding = FALSE
  /\ nmerges = 0 /\ nrebuilds = 0
  /\ pre = EmptyDb /\ log = EmptyLog /\ rebuilt = <<>>

\* the archive holds the base file only
Init ==
  /\ \E body \in Bodies : files = [v \in 0..MaxRev |-> IF v = 0 THEN Some(body) ELSE None]
  /\ InitStore
  /\ fillin = None /\ fillout = None

Next ==
  \/ (~dbexists /\ recreate_db)
  \/ RecreateDbNext
  \/ \E v \in 1..MaxRev : merge_new_glimmon_to_db(v)
  \/ \E tabletype \in TableTypes : merge_added_msidsets(tabletype)
  \/ \E tabletype \in TableTypes : merge_deleted_msidsets(tabletype)
  \/ \E tabletype \in TableTypes : merge_modified_msidsets(tabletype)
  \/ commit_new_version_row
  \/ MergeEnd
  \/ \E v \in 1..MaxRev, body \in Bodies : Publish(v, body)
  \/ Abort

Spec == Init /\ [][Next]_vars

(***************************************************************************)
(* Full rebuilds of a fixed archive: recreate_db is run MaxRebuilds times  *)
(* over the same files, each run to its end.                               *)
(***************************************************************************)
\* the archives: the base file and any of the revision files
Archives ==
  {f \in [0..MaxRev -> {None} \cup {Some(body) : body \in Bodies}] : Has(f[0])}

InitRebuild ==
  /\ files \in Archives
  /\ InitStore
  /\ fillin = None /\ fillout = None

NextRebuild ==
  \/ recreate_db
  \/ RecreateDbNext
  \/ \E tabletype \in TableTypes : merge_added_msidsets(tabletype)
  \/ \E tabletype \in TableTypes : merge_deleted_msidsets(tabletype)
  \/ \E tabletype \in TableTypes : merge_modified_msidsets(tabletype)
  \/ commit_new_version_row
  \/ MergeEnd

SpecRebuild == InitRebuild /\ [][NextRebuild]_vars

(***************************************************************************)
(* The defaulting and the row projection on their own: one entity B of a   *)
(* revision, with or without limit sets in the TDB, between entities that  *)
(* the revision names and nothing defines.                                 *)
(***************************************************************************)
\* the limit sets an entry of the TDB may hold, numbered from 1
TdbSetMaps ==
  UNION {[D -> {TdbSet(10, 20, 30, 40), TdbSet(11, 21, 31, 41)}] :
           D \in (SUBSET (1..MaxTdbSets)) \ {{}}}

\* the scalar declarations that may follow MLOAD B
ScalarDecls ==
  {tol \o en : tol \in {<<>>, <<MLMTOL(2)>>, <<MLMTOL(5)>>},
               en \in {<<>>, <<MLMENABLE(1)>>, <<MLMENABLE(0)>>}}

\* the MLIMIT lines that may follow MLOAD B
LimitDecls ==
  {<<>>, <<MLIMIT(0, Some(<<1, 2, 3, 4>>), None)>>, <<MLIMIT(0, None, Some("ON"))>>,
   <<MLIMIT(0, Some(<<1, 2, 3, 4>>), None), MLIMIT(1, None, Some("ON"))>>,
   <<MLIMIT(0, None, Some("ON")), MLIMIT(1, Some(<<1, 2, 3, 4>>), None)>>,
   <<MLIMIT(1, Some(<<1, 2, 3, 4>>), Some("ON"))>>,
   <<[MLIMIT(0, Some(<<1, 2, 3, 4>>), None) EXCEPT
        !.switchstate = Some("OFF"), !.nwords = 10]>>}

\* the entities named before and after B, with no line of their own
EntitiesBefore == {<<>>, <<MLOAD("A")>>, <<MLOAD("A"), MLOAD("C")>>}

EntitiesAfter == {<<>>, <<MLOAD("C")>>}

\* sets: the limit sets of the TDB; intdb: they are those of b (else of another
\* msid); switched: the TDB names a switch msid and a state code for each of
\* them; limits, decls: the lines of B; before, after: the other entities
FillInputs ==
  [sets : TdbSetMaps, intdb : BOOLEAN, switched : BOOLEAN,
   limits : LimitDecls, decls : ScalarDecls,
   before : EntitiesBefore, after : EntitiesAfter, v : 0..MaxRev,
   discard_disabled_sets : BOOLEAN]

\* tdb_all.pkl with the given limit sets for entity b in every snapshot
FillTdbs(sets) == [id \in SnapshotIds |-> ("b" :> TdbLimit(sets))]

\* tdb_all.pkl with no entry for an entity of the revision
FillTdbsOther(sets) == [id \in SnapshotIds |-> ("sw" :> TdbLimit(sets))]

\* tdb_all.pkl with the given limit sets for entity b, a switch msid and the
\* state code of each set
FillTdbsSwitched(sets) ==
  [id \in SnapshotIds |->
     ("b" :> [TdbLimit(sets) EXCEPT
                !.limit_switch_msid = Txt("SW"),
                !.lim_switch = Some([k \in DOMAIN sets |->
                                       [state_code |-> Some("ON")]])])]

\* the text of the revision of an input
FillBody(in) == in.before \o DeclB \o in.limits \o in.decls \o in.after

\* read_glimmon and the update_msid loop on an input
FillGlimmon(in) ==
  Load(IF ~in.intdb THEN FillTdbsOther(in.sets)
       ELSE IF in.switched THEN FillTdbsSwitched(in.sets)
       ELSE FillTdbs(in.sets), in.v,
       FillBody(in))

\* read_glimmon, the update_msid loop and GLimit.gen_row_data: the limit rows,
\* the expected-state rows and the entities a warning was logged for
Project ==
  /\ Has(fillin) /\ ~Has(fillout)
  /\ LET in == Val(fillin)
         g == FillGlimmon(in)
     IN fillout' = Some(gen_row_data(g, in.discard_disabled_sets)
                          \o <<gen_row_warnings(g)>>)
  /\ UNCHANGED <<files, dbexists, olddb, newdb, pc, cur, queue, rebuilding,
                 nmerges, nrebuilds, pre, log, rebuilt, fillin>>

InitFill ==
  /\ files = [v \in 0..MaxRev |-> None]
  /\ InitStore
  /\ \E in \in FillInputs : fillin = Some(in)
  /\ fillout = None

NextFill == Project

SpecFill == InitFill /\ [][NextFill]_vars

(***************************************************************************)
(* read_glimmon on its own, line by line, on any short text made of whole, *)
(* cut and unknown lines.                                                  *)
(***************************************************************************)
MaxLines == 3

\* a line that ends after its first word
CutLine(kw) == [kw |-> kw, nwords |-> 1]

\* the lines of a text
Lines ==
  {MLOAD("A"), [kw |-> "MLOAD", name |-> "A", nwords |-> 3],
   [kw |-> "MMSID", name |-> "B", nwords |-> 2],
   MLIMIT(0, Some(<<1, 2, 3, 4>>), None), MLMTOL(2), MLMENABLE(0),
   [kw |-> "MLIMSW", msid |-> "C", nwords |-> 2],
   [kw |-> "MLMDEFTOL", n |-> 3, nwords |-> 2],
   CutLine("MLMTOL"), CutLine("MMSID"),
   [kw |-> "MFORMAT", nwords |-> 3]}

Texts == UNION {[1..n -> Lines] : n \in 0..MaxLines}

\* the loop of read_glimmon takes the next line; fillout holds the dictionary
\* and the cursor (g), what they were before the line (prev) and the number of
\* lines read (pos)
ReadNextLine ==
  /\ Has(fillin) /\ Has(fillout)
  /\ LET lines == Val(fillin).lines
         out == Val(fillout)
     IN /\ out.pos < Len(lines) /\ ~out.g.err
        /\ fillout' = Some([g |-> ReadLine(out.g, lines[out.pos + 1]),
                            prev |-> out.g, pos |-> out.pos + 1])
  /\ UNCHANGED <<files, dbexists, olddb, newdb, pc, cur, queue, rebuilding,
                 nmerges, nrebuilds, pre, log, rebuilt, fillin>>

InitRead ==
  /\ files = [v \in 0..MaxRev |-> None]
  /\ InitStore
  /\ \E lines \in Texts : fillin = Some([lines |-> lines])
  /\ fillout = Some([g |-> EmptyGlimmon, prev |-> EmptyGlimmon, pos |-> 0])

NextRead == ReadNextLine

SpecRead == InitRead /\ [][NextRead]_vars

(***************************************************************************)
(* merge_new_glimmon_to_db called on any state of the disk: the revision   *)
(* file, tdb_all.pkl and the store file may each be missing.               *)
(***************************************************************************)
\* a store file that sqlite3.connect has just created: it has no table
NoTables == EmptyDb

\* the arguments of a call and the disk: v, the revision of the file name;
\* tdbs, whether the caller passes the loaded snapshots (get_tdb loads
\* tdb_all.pkl itself when it gets none); tdbfile, whether tdb_all.pkl exists
MergeCalls == [v : 1..MaxRev, tdbs : BOOLEAN, tdbfile : BOOLEAN]

\* one call of merge_new_glimmon_to_db up to create_db.  fillout records the
\* exception that ended the call, if any, and whether the store file existed
\* before it; pre is the store before the call
MergeCall ==
  /\ Has(fillin) /\ ~Has(fillout)
  /\ pc = "idle"
  /\ LET in == Val(fillin)
     IN IF ~Has(files[in.v])
        THEN \* read_glimmon: open(filename, 'r')
             /\ fillout' = Some([error |-> "FileNotFoundError", existed |-> dbexists])
             /\ pre' = olddb
             /\ UNCHANGED <<dbexists, olddb, newdb, pc, cur, log>>
        ELSE IF ~in.tdbs /\ ~in.tdbfile
        THEN \* get_tdb: _load_pickle_file(tdbfile)
             /\ fillout' = Some([error |-> "FileNotFoundError", existed |-> dbexists])
             /\ pre' = olddb
             /\ UNCHANGED <<dbexists, olddb, newdb, pc, cur, log>>
        ELSE IF ~dbexists
        THEN \* sqlite3.connect creates the file; SELECT MAX(version) FROM
             \* versions then finds no table
             /\ fillout' = Some([error |-> "OperationalError", existed |-> dbexists])
             /\ pre' = olddb
             /\ dbexists' = TRUE
             /\ olddb' = NoTables
             /\ UNCHANGED <<newdb, pc, cur, log>>
        ELSE /\ fillout' = Some([error |-> "none", existed |-> dbexists])
             /\ MergeBegin(in.v)
             /\ UNCHANGED <<dbexists, olddb>>
  /\ UNCHANGED <<files, queue, rebuilding, nmerges, nrebuilds, rebuilt, fillin>>

\* the disk before the call: the base file and any of the revision files; no
\* store, or the store recreate_db made of the base file
InitMerge ==
  /\ files \in Archives
  /\ newdb = EmptyDb
  /\ pc = "idle" /\ cur = NoCur /\ queue = <<>> /\ rebuilding = FALSE
  /\ nmerges = 0 /\ nrebuilds = 0
  /\ pre = EmptyDb /\ log = EmptyLog /\ rebuilt = <<>>
  /\ dbexists \in BOOLEAN
  /\ IF dbexists
     THEN LET g == LoadGlimmon(0, Val(files[0]))
              temp == create_db(EmptyDb, g, TRUE)
          IN \E reads \in Reads(temp) :
               olddb = compute_fingerprints(temp, reads, 0, g.revision, g.date)
     ELSE olddb = EmptyDb
  /\ \E in \in MergeCalls : fillin = Some(in)
  /\ fillout = None

NextMerge ==
  \/ MergeCall
  \/ \E tabletype \in TableTypes : merge_added_msidsets(tabletype)
  \/ \E tabletype \in TableTypes : merge_deleted_msidsets(tabletype)
  \/ \E tabletype \in TableTypes : merge_modified_msidsets(tabletype)
  \/ commit_new_version_row
  \/ MergeEnd

SpecMerge == InitMerge /\ [][NextMerge]_vars

(***************************************************************************)
(* The three merge passes and commit_new_rows on their own, called on the  *)
(* stores of two revisions with any text as the table type.                *)
(***************************************************************************)
\* the functions that take a table type and write
StoreCalls ==
  {"merge_added_msidsets", "merge_deleted_msidsets", "merge_modified_msidsets",
   "commit_new_rows"}

\* the texts passed as table type
TabletypeArgs ==
  {"limit", "expected_state", "LIMIT", "Expected_State", "limits", "versions", ""}

CallInputs ==
  [op : StoreCalls, tabletype : TabletypeArgs, oldbody : Bodies, newbody : Bodies]

\* the store of the first revision and the temporary store of the next
CallOld(in) == create_db(EmptyDb, LoadGlimmon(0, in.oldbody), TRUE)

CallNew(in) == create_db(EmptyDb, LoadGlimmon(1, in.newbody), TRUE)

\* the lists of rows a call may commit, one per iteration order of its set;
\* commit_new_rows is called with the rows of the temporary store
RowsToCommit(op, new, old, tabletype) ==
  CASE op = "merge_added_msidsets" ->
         {AddRows(new, old, tabletype, order) :
            order \in Perms(AddedSet(new, old, tabletype))}
    [] op = "merge_deleted_msidsets" ->
         {DeactivateRows(new, old, tabletype, order) :
            order \in Perms(DeletedSet(new, old, tabletype))}
    [] op = "merge_modified_msidsets" ->
         {ModRows(new, old, tabletype, order) :
            order \in Perms(ModifiedSet(new, old, tabletype))}
    [] op = "commit_new_rows" -> {new[TableOf(tabletype)]}

\* one call: the first test of the table type (in the first query of a pass,
\* in commit_new_rows before any INSERT) raises ValueError, or the call
\* commits its rows
CallStore ==
  /\ Has(fillin) /\ ~Has(fillout)
  /\ LET in == Val(fillin)
         new == CallNew(in)
         old == CallOld(in)
     IN IF TabletypeError(in.tabletype)
        THEN fillout' = Some([raised |-> TRUE, db |-> old])
        ELSE \E rows \in RowsToCommit(in.op, new, old, in.tabletype) :
               fillout' = Some([raised |-> FALSE,
                                db |-> commit_new_rows(old, rows, in.tabletype)])
  /\ UNCHANGED <<files, dbexists, olddb, newdb, pc, cur, queue, rebuilding,
                 nmerges, nrebuilds, pre, log, rebuilt, fillin>>

InitCall ==
  /\ files = [v \in 0..MaxRev |-> None]
  /\ InitStore
  /\ \E in \in CallInputs : fillin = Some(in)
  /\ fillout = None

NextCall == CallStore

SpecCall == InitCall /\ [][NextCall]_vars

(***************************************************************************)
(* get_tdb on its own, for every revision number a file name can carry and *)
(* the first ones beyond.                                                  *)
(***************************************************************************)
MaxRevisionNumber == 1001

\* tdb_all.pkl with, as every snapshot, its own name
TdbNames == [id \in SnapshotIds |-> id]

\* tdb = get_tdb(tdbs, g['revision'][2:])
Resolve ==
  /\ Has(fillin) /\ ~Has(fillout)
  /\ fillout' = Some(get_tdb(TdbNames, Val(fillin).revision))
  /\ UNCHANGED <<files, dbexists, olddb, newdb, pc, cur, queue, rebuilding,
                 nmerges, nrebuilds, pre, log, rebuilt, fillin>>

InitTdb ==
  /\ files = [v \in 0..MaxRev |-> None]
  /\ InitStore
  /\ \E r \in 0..MaxRevisionNumber : fillin = Some([revision |-> r])
  /\ fillout = None

NextTdb == Resolve

SpecTdb == InitTdb /\ [][NextTdb]_vars

(***************************************************************************)
(* backup_glimmon.py: runs of the script on two watched files that share   *)
(* one state file and one destination directory, between edits of the      *)
(* files.  fillin is the file system, fillout what the runs did so far.    *)
(***************************************************************************)
MaxRuns == 4

\* str(src_file) of the two watched files
SrcFiles == {"/a/G_LIMMON.dec", "/b/G_LIMMON.dec"}

\* what a watched file can hold
Contents == {"x", "y"}

\* the SHA-256 hex digest: different contents have different digests
compute_hash(content) == [sha256 |-> content]

\* the dictionary of the state file, {} when it is missing or is not JSON
load_state(state_file) ==
  IF ~Has(state_file) THEN [p \in {} |-> None]
  ELSE IF ~Val(state_file).readable THEN [p \in {} |-> None]
  ELSE Val(state_file).json

\* a faulty save, which leaves the state file as it was
save_state_skipped(state_file, state) == state_file

\* state_path.write_text(json.dumps(state, indent=2))
save_state(state_file, state) == Some([readable |-> TRUE, json |-> state])

\* one run on src_file at the second timestamp: the file system it leaves,
\* whether it raised FileNotFoundError and whether it made a copy.  The
\* destination directory is the set of its files, a file of a name that
\* exists being overwritten.
backup_if_changed(fs, src_file, timestamp) ==
  IF ~Has(fs.src[src_file])
  THEN [fs |-> fs, raised |-> TRUE, copied |-> FALSE]
  ELSE LET state == load_state(fs.state)
           current_hash == compute_hash(Val(fs.src[src_file]))
           last_hash == IF src_file \in DOMAIN state
                        THEN Some(state[src_file]) ELSE None
           dest_name == [stem |-> src_file, timestamp |-> timestamp,
                         short_hash |-> current_hash]
           updated == [p \in DOMAIN state \cup {src_file} |->
                         IF p = src_file THEN current_hash ELSE state[p]]
       IN IF last_hash = Some(current_hash)
          THEN [fs |-> fs, raised |-> FALSE, copied |-> FALSE]
          ELSE [fs |-> [fs EXCEPT
                          !.dst = {f \in @ : f.name # dest_name}
                                    \cup {[name |-> dest_name,
                                           content |-> Val(fs.src[src_file])]},
                          !.state = save_state(@, updated)],
                raised |-> FALSE, copied |-> TRUE]

\* python backup_glimmon.py --src ... --dst ..., in the second of the run
\* before or in a later one.  Of each watched file the history keeps the
\* content its last run found and the copies made since a run found another.
BackupRun(src_file) ==
  /\ fillout.runs < MaxRuns
  /\ \E timestamp \in {fillin.now, fillin.now + 1} :
       LET out == backup_if_changed(fillin, src_file, timestamp)
           same == fillout.seen[src_file] = fillin.src[src_file]
           made == IF out.copied THEN 1 ELSE 0
       IN /\ fillin' = [out.fs EXCEPT !.now = timestamp]
          /\ fillout' =
               [runs |-> fillout.runs + 1,
                seen |-> IF out.raised THEN fillout.seen
                         ELSE [fillout.seen EXCEPT ![src_file] = fillin.src[src_file]],
                copies |-> IF out.raised THEN fillout.copies
                           ELSE [fillout.copies EXCEPT ![src_file] =
                                   IF same THEN @ + made ELSE made],
                last |-> Some([src_file |-> src_file, content |-> fillin.src[src_file],
                               before |-> fillin.state, raised |-> out.raised,
                               copied |-> out.copied])]
  /\ UNCHANGED <<files, dbexists, olddb, newdb, pc, cur, queue, rebuilding,
                 nmerges, nrebuilds, pre, log, rebuilt>>

\* somebody writes, or removes, a watched file between two runs
EditSource(src_file) ==
  /\ \E f \in {None} \cup {Some(c) : c \in Contents} :
       /\ f # fillin.src[src_file]
       /\ fillin' = [fillin EXCEPT !.src[src_file] = f]
  /\ UNCHANGED <<files, dbexists, olddb, newdb, pc, cur, queue, rebuilding,
                 nmerges, nrebuilds, pre, log, rebuilt, fillout>>

\* before the first run: no backup, and a state file that is missing or was
\* left unreadable
InitBackup ==
  /\ files = [v \in 0..MaxRev |-> None]
  /\ InitStore
  /\ \E src \in [SrcFiles -> {None} \cup {Some(c) : c \in Contents}],
        state_file \in {None, Some([readable |-> FALSE, json |-> [p \in {} |-> None]])} :
       fillin = [src |-> src, state |-> state_file, dst |-> {}, now |-> 0]
  /\ fillout = [runs |-> 0, seen |-> [p \in SrcFiles |-> None],
                copies |-> [p \in SrcFiles |-> 0], last |-> None]

NextBackup ==
  \/ \E src_file \in SrcFiles : BackupRun(src_file)
  \/ \E src_file \in SrcFiles : EditSource(src_file)

SpecBackup == InitBackup /\ [][NextBackup]_vars

(***************************************************************************)
(* The properties.                                                         *)
(***************************************************************************)
IsPrefix(s, t) == Len(s) <= Len(t) /\ SubSeq(t, 1, Len(s)) = s

KeysOf(rows) == {KeyOf(rows[i]) : i \in DOMAIN rows}

RowsOfKey(rows, k) == SelectSeq(rows, LAMBDA r : KeyOf(r) = k)

\* the rows the running merge has appended to a table of the store
Appended(tabletype) ==
  SubSeq(olddb[TableOf(tabletype)], Len(pre[TableOf(tabletype)]) + 1,
         Len(olddb[TableOf(tabletype)]))

\* the latest row of a pair: of its rows of the highest modversion, the first
LatestOf(rows, k) ==
  LET idx == {i \in DOMAIN rows : KeyOf(rows[i]) = k}
      top == {i \in idx : \A j \in idx : rows[j].modversion <= rows[i].modversion}
  IN rows[CHOOSE i \in top : \A j \in top : i <= j]

\* a row without its stamp: the columns other than datesec, date and modversion
Mutable(row) == [row EXCEPT !.datesec = 0, !.date = 0, !.modversion = 0]

\* the six passes of the running merge have committed
PassesDone == pc = "version"

\* the pairs of the store, before the running merge, whose latest row is
\* enabled and which the new revision's rows do not hold
EnabledAndAbsent(tabletype) ==
  {k \in KeysOf(pre[TableOf(tabletype)]) :
     /\ LatestOf(pre[TableOf(tabletype)], k).mlmenable # Num(0)
     /\ k \notin KeysOf(newdb[TableOf(tabletype)])}

\* the pairs of the store whose latest row is disabled and which stay absent
DisabledAndAbsent(tabletype) ==
  {k \in KeysOf(pre[TableOf(tabletype)]) :
     /\ LatestOf(pre[TableOf(tabletype)], k).mlmenable = Num(0)
     /\ k \notin KeysOf(newdb[TableOf(tabletype)])}

\* C1: two runs of recreate_db over the same files and the same TDB give
\* limits, expected_states and versions tables that, read in (datesec, msid,
\* setkey) order (versions: (datesec, version)), are equal row for row,
\* whatever the iteration orders of the key sets and of the glob were.
C1_RebuildDeterministic ==
  \A i \in DOMAIN rebuilt : \A j \in DOMAIN rebuilt : rebuilt[i] = rebuilt[j]

\* C1: two rebuilds of an archive of the base file and two revisions have ended
C1_Witness ==
  /\ Len(rebuilt) >= 2
  /\ Len(rebuilt[2].versions) >= 3
  /\ Len(rebuilt[2].limits) >= 2

\* C2: every row of limits and expected_states that was there when a merge
\* began is there, at its place and with all its columns, at every later point
\* of the merge and after it, also when the merge stops part-way.
C2_RowsKept ==
  /\ IsPrefix(pre.limits, olddb.limits)
  /\ IsPrefix(pre.expected_states, olddb.expected_states)

\* C2: a merge into a store with rows has stopped part-way after it appended
C2_Witness ==
  /\ pc = "idle" /\ Has(cur.revision) /\ ~cur.done
  /\ pre.limits # <<>>
  /\ Len(olddb.limits) > Len(pre.limits)

\* C3: for every (msid, setkey) of limits and of expected_states, the
\* modversion values of its rows in insertion order are strictly increasing.
C3_ModversionIncreasing ==
  \A t \in {"limits", "expected_states"} :
    \A i \in DOMAIN olddb[t] : \A j \in DOMAIN olddb[t] :
      (i < j /\ KeyOf(olddb[t][i]) = KeyOf(olddb[t][j]))
        => olddb[t][i].modversion < olddb[t][j].modversion

\* C4: per table, the pairs that the added, the deactivated and the modified
\* pass of one merge append a row for are pairwise disjoint, and no pair gets
\* more than one row from one merge.
C4_PassesDisjoint ==
  \A tabletype \in TableTypes :
    LET a == log[PassOf(tabletype, "added")]
        d == log[PassOf(tabletype, "deleted")]
        m == log[PassOf(tabletype, "modified")]
        all == a \o d \o m
    IN /\ KeysOf(a) \cap KeysOf(d) = {}
       /\ KeysOf(a) \cap KeysOf(m) = {}
       /\ KeysOf(d) \cap KeysOf(m) = {}
       /\ \A i \in DOMAIN all : \A j \in DOMAIN all :
            KeyOf(all[i]) = KeyOf(all[j]) => i = j

\* C4: one merge has added pairs to limits and modified others
C4_Witness == log.limit_added # <<>> /\ log.limit_modified # <<>>

\* C5: a pair whose latest row in the store is enabled and which the new
\* revision's rows do not hold gets exactly one row from the merge: mlmenable
\* 0, datesec, date and modversion of the new revision, every other column
\* as in the pair's latest row; the added and modified passes give it nothing.
C5_DeactivatedRow ==
  PassesDone =>
    \A tabletype \in TableTypes : \A k \in EnabledAndAbsent(tabletype) :
      LET old == LatestOf(pre[TableOf(tabletype)], k)
      IN /\ RowsOfKey(Appended(tabletype), k) =
              <<[old EXCEPT !.mlmenable = Num(0),
                            !.datesec = Val(cur.date), !.date = Val(cur.date),
                            !.modversion = RevNum(Val(cur.revision))]>>
         /\ RowsOfKey(log[PassOf(tabletype, "added")], k) = <<>>
         /\ RowsOfKey(log[PassOf(tabletype, "modified")], k) = <<>>

\* C5: the passes of a merge have run on a store with such a pair
C5_Witness ==
  PassesDone /\ \E tabletype \in TableTypes : EnabledAndAbsent(tabletype) # {}

\* C6: a pair that the new revision's rows and the store both hold gets
\* exactly one row from the merge, the new revision's row with the new
\* revision's modversion, if its columns other than datesec, date and
\* modversion differ from those of its latest row in the store, and none if
\* they are equal.
C6_ModifiedRow ==
  PassesDone =>
    \A tabletype \in TableTypes :
      \A k \in KeysOf(pre[TableOf(tabletype)]) \cap KeysOf(newdb[TableOf(tabletype)]) :
        LET old == LatestOf(pre[TableOf(tabletype)], k)
            new == LatestOf(newdb[TableOf(tabletype)], k)
        IN IF Mutable(new) # Mutable(old)
           THEN /\ RowsOfKey(Appended(tabletype), k) = <<new>>
                /\ new.modversion = RevNum(Val(cur.revision))
           ELSE RowsOfKey(Appended(tabletype), k) = <<>>

\* C6: the passes of a merge have run with a pair whose thresholds differ
C6_Witness ==
  /\ PassesDone
  /\ \E k \in KeysOf(pre.limits) \cap KeysOf(newdb.limits) :
       /\ LatestOf(pre.limits, k).mlmenable = LatestOf(newdb.limits, k).mlmenable
       /\ Mutable(LatestOf(pre.limits, k)) # Mutable(LatestOf(newdb.limits, k))

\* C7: in limits and in expected_states, exactly one row carries the highest
\* modversion of its (msid, setkey).
C7_OneLatestRow ==
  \A t \in {"limits", "expected_states"} :
    \A i \in DOMAIN olddb[t] : \A j \in DOMAIN olddb[t] :
      (/\ KeyOf(olddb[t][i]) = KeyOf(olddb[t][j])
       /\ olddb[t][i].modversion = olddb[t][j].modversion
       /\ \A n \in DOMAIN olddb[t] :
            KeyOf(olddb[t][n]) = KeyOf(olddb[t][i])
              => olddb[t][n].modversion <= olddb[t][i].modversion)
        => i = j

\* C8: a merge of the revision that the call before it merged to its end adds
\* no row to limits, expected_states or versions.
C8_SecondMergeAddsNothing ==
  cur.again =>
    /\ olddb.limits = pre.limits
    /\ olddb.expected_states = pre.expected_states
    /\ olddb.versions = pre.versions

\* C9: the deactivated pass appends a row for exactly the pairs whose latest
\* row in the store is enabled and which the new revision's rows do not hold;
\* a pair whose latest row is disabled and which stays absent gets no row.
C9_DeactivatedExactly ==
  PassesDone =>
    \A tabletype \in TableTypes :
      /\ KeysOf(log[PassOf(tabletype, "deleted")]) = EnabledAndAbsent(tabletype)
      /\ \A k \in DisabledAndAbsent(tabletype) :
           RowsOfKey(Appended(tabletype), k) = <<>>

\* C9: the passes of a merge have run on a store with a disabled pair that the
\* new revision omits again
C9_Witness ==
  PassesDone /\ \E tabletype \in TableTypes : DisabledAndAbsent(tabletype) # {}

\* the tolerances a revision declares for the entity
DeclaredTols(decls) ==
  {decls[i].n : i \in {j \in DOMAIN decls : decls[j].kw = "MLMTOL"}}

\* C10: for an entity with no MLIMIT line in the revision and with limit sets
\* in the TDB, every projected row has the four thresholds of the TDB set
\* whose number is the row's set key plus one, and its mlmtol is the tolerance
\* the revision declares, if it declares one.
C10_TdbThresholds ==
  (Has(fillout) /\ Val(fillin).intdb /\ Val(fillin).limits = <<>>) =>
    LET in == Val(fillin)
        rows == Val(fillout)[1]
    IN \A i \in DOMAIN rows :
         rows[i].msid = "b" =>
           /\ rows[i].setkey + 1 \in DOMAIN in.sets
           /\ rows[i].warning_low = Num(Val(in.sets[rows[i].setkey + 1].warning_low))
           /\ rows[i].caution_low = Num(Val(in.sets[rows[i].setkey + 1].caution_low))
           /\ rows[i].caution_high = Num(Val(in.sets[rows[i].setkey + 1].caution_high))
           /\ rows[i].warning_high = Num(Val(in.sets[rows[i].setkey + 1].warning_high))
           /\ \A n \in DeclaredTols(in.decls) : rows[i].mlmtol = Num(n)

\* C10: two different TDB sets were projected under a declared tolerance
C10_Witness ==
  /\ Has(fillout)
  /\ Val(fillin).intdb /\ Val(fillin).limits = <<>>
  /\ Len(Val(fillout)[1]) = 2
  /\ DeclaredTols(Val(fillin).decls) # {}
  /\ DOMAIN Val(fillin).sets = {1, 2}
  /\ Val(fillin).sets[1] # Val(fillin).sets[2]

\* the rows projected for entity b, of both types
RowsOfB == SelectSeq(Val(fillout)[1] \o Val(fillout)[2], LAMBDA r : r.msid = "b")

DeclaredEnables(decls) ==
  {decls[i].n : i \in {j \in DOMAIN decls : decls[j].kw = "MLMENABLE"}}

\* C11: every projected row of an entity for which the revision declares
\* neither MLMENABLE nor MLMTOL has mlmenable 1 and, as its mlmtol, the
\* MLMDEFTOL of the revision, with and without data of the entity in the TDB.
C11_DefaultEnableAndTol ==
  (/\ Has(fillout)
   /\ DeclaredEnables(Val(fillin).decls) = {}
   /\ DeclaredTols(Val(fillin).decls) = {}) =>
    \A i \in DOMAIN RowsOfB :
      /\ NumAffinity(RowsOfB[i].mlmenable) = Num(1)
      /\ NumAffinity(RowsOfB[i].mlmtol) =
           Num(Val(read_glimmon(FileText(Val(fillin).v, <<>>)).mlmdeftol))

\* the entities of the revision of the input that have no type after the
\* defaulting and whose enable flag is not 0
UntypedEnabled ==
  LET g == FillGlimmon(Val(fillin))
  IN {msid \in Range(g.order) :
        ~Has(g.ents[msid].type) /\ g.ents[msid].mlmenable # Some(0)}

\* C12: for every entity of a revision that has no type after defaulting and
\* whose enable flag is not 0, the projection emits no row and logs a warning
\* naming the entity, whatever its position among the other entities.
C12_UntypedWarned ==
  Has(fillout) =>
    \A msid \in UntypedEnabled :
      /\ \A i \in DOMAIN Val(fillout)[1] : Val(fillout)[1][i].msid # Lower(msid)
      /\ \A i \in DOMAIN Val(fillout)[2] : Val(fillout)[2][i].msid # Lower(msid)
      /\ msid \in Range(Val(fillout)[3])

\* the projected rows of a type for one entity and one set key
ProjectedRows(typ, msid, setkey) ==
  LET rows == IF typ = "limit" THEN Val(fillout)[1] ELSE Val(fillout)[2]
  IN {i \in DOMAIN rows : rows[i].msid = Lower(msid) /\ rows[i].setkey = setkey}

\* C13: gen_row_data with discard_disabled_sets = True returns no row of an
\* entity whose enable flag is 0; with discard_disabled_sets = False it returns
\* one row per set key of every typed entity, the disabled ones included.
C13_DiscardDisabledSets ==
  Has(fillout) =>
    LET g == FillGlimmon(Val(fillin))
    IN IF Val(fillin).discard_disabled_sets
       THEN \A msid \in Range(g.order) :
              g.ents[msid].mlmenable = Some(0) =>
                \A typ \in TableTypes : \A setkey \in DOMAIN g.ents[msid].sets :
                  ProjectedRows(typ, msid, setkey) = {}
       ELSE \A msid \in Range(g.order) :
              Has(g.ents[msid].type) =>
                \A setkey \in Range(Val(g.ents[msid].setkeys)) :
                  Cardinality(ProjectedRows(Lower(Val(g.ents[msid].type)),
                                            msid, setkey)) = 1

\* the snapshot each revision number is said to resolve to
SnapshotOfRevision(r) ==
  CASE r <= 130 -> "p007"
    [] r \in 131..228 -> "p009"
    [] r \in 229..245 -> "p010"
    [] r \in 246..249 -> "p011"
    [] r \in 250..256 -> "p012"
    [] r \in 257..260 -> "p013"
    [] r \in 261..342 -> "p014"
    [] r \in 343..359 -> "p015"
    [] r \in 360..407 -> "p016"
    [] r >= 408 -> "p017"

\* C14: get_tdb resolves every non-negative revision number to exactly one
\* snapshot: up to 130 to p007, 131-228 to p009, 229-245 to p010, 246-249 to
\* p011, 250-256 to p012, 257-260 to p013, 261-342 to p014, 343-359 to p015,
\* 360-407 to p016 and every revision from 408 upward, without bound, to p017.
C14_SnapshotOfRevision ==
  Has(fillout) =>
    Val(fillout) = Some(SnapshotOfRevision(Val(fillin).revision))

\* the version numbers of the versions table of a store
VersionsIn(db) == {db.versions[i].version : i \in DOMAIN db.versions}

\* the revisions of the archive: the base file and the G_LIMMON_2.* files
ArchivedRevisions == {v \in 0..MaxRev : Has(files[v])}

\* C15: during recreate_db the production store is replaced once, after every
\* revision was merged into a temporary store: at each intermediate point of
\* the rebuild the production file holds its contents of before the rebuild
\* or the complete rebuilt contents, never a prefix of the revisions.  Before
\* the first rebuild there is no store, so that during it the production
\* store holds the versions rows of none or of all the archived revisions.
C15_ProductionReplacedOnce ==
  (rebuilding /\ nrebuilds = 1) =>
    VersionsIn(olddb) \in {{}, ArchivedRevisions}

\* C16: in every reachable store state the versions table holds at most one
\* row per version number and at most one row per datesec, and every merge
\* that runs to completion adds exactly one versions row, that of the merged
\* revision.
C16_OneVersionRow ==
  /\ \A i, j \in DOMAIN olddb.versions :
       i # j => /\ olddb.versions[i].version # olddb.versions[j].version
                /\ olddb.versions[i].datesec # olddb.versions[j].datesec
  /\ cur.done =>
       olddb.versions =
         Append(pre.versions, [version |-> RevNum(Val(cur.revision)),
                               datesec |-> Val(cur.date), date |-> Val(cur.date)])

\* a merge ran to completion on a store that held another revision, and a
\* revision with the date of a stored one was refused
C16_Witness ==
  /\ cur.done /\ Len(olddb.versions) >= 2
  /\ \E v \in 1..MaxRev :
       /\ Has(files[v]) /\ v \notin VersionsIn(olddb)
       /\ read_glimmon(FileText(v, Val(files[v]))).date
            \in {Some(olddb.versions[i].date) : i \in DOMAIN olddb.versions}

\* the build_fingerprints rows of the production store keyed by a version
FingerprintsOf(version) ==
  SelectSeq(olddb.build_fingerprints, LAMBDA fp : fp.version = version)

\* the one row keyed by a version is that of the merge that just ended
FingerprintOfMerge(version) ==
  /\ Len(FingerprintsOf(version)) = 1
  /\ LET fp == FingerprintsOf(version)[1]
     IN /\ fp.source_revision = cur.revision
        /\ fp.limit_count = Len(olddb.limits)
        /\ fp.state_count = Len(olddb.expected_states)
        /\ fp.version_count = Len(olddb.versions)

RaisedAndUnchanged ==
  /\ Val(fillout).raised
  /\ \A tbl \in DOMAIN EmptyDb : Val(fillout).db[tbl] = CallOld(Val(fillin))[tbl]

\* C18 as stated: each of merge_added_msidsets, merge_deleted_msidsets,
\* merge_modified_msidsets and commit_new_rows, called with a table type
\* other than 'limit' or 'expected_state', raises an error and leaves every
\* table of the store unchanged.
C18_OtherTabletypeRaises ==
  (Has(fillout) /\ Val(fillin).tabletype \notin {"limit", "expected_state"}) =>
    RaisedAndUnchanged

\* C18 as amended: ... with a table type that is, in lower case, neither
\* 'limit' nor 'expected_state' ...
C18_InvalidTabletypeRaises ==
  (Has(fillout) /\ Lower(Val(fillin).tabletype) \notin {"limit", "expected_state"}) =>
    RaisedAndUnchanged

\* a call with an invalid table type on a store and a temporary store with
\* rows, which the same call with 'limit' writes into the store
C18_Witness ==
  /\ Has(fillout)
  /\ Val(fillin).tabletype = "limits"
  /\ RaisedAndUnchanged
  /\ CallOld(Val(fillin)).limits # <<>>
  /\ \E rows \in RowsToCommit(Val(fillin).op, CallNew(Val(fillin)),
                               CallOld(Val(fillin)), "limit") : rows # <<>>

\* the call of the input found the revision file, tdb_all.pkl or the store
\* file missing
SomethingMissing ==
  \/ ~Has(files[Val(fillin).v])
  \/ ~Val(fillin).tdbs /\ ~Val(fillin).tdbfile
  \/ ~Val(fillout).existed

\* C19: merge_new_glimmon_to_db called when the revision file, the reference
\* snapshot or the prior store file does not exist fails with a not-found
\* error before anything is written: no store file is created and no table of
\* an existing store changes.
C19_MissingFileNothingWritten ==
  (Has(fillout) /\ SomethingMissing) =>
    /\ Val(fillout).error = "FileNotFoundError"
    /\ dbexists = Val(fillout).existed
    /\ olddb = pre

\* an MLOAD or MMSID line that names an entity
OpensEntity(ln) ==
  \/ ln.kw = "MLOAD" /\ ln.nwords = 2
  \/ ln.kw = "MMSID" /\ ln.nwords >= 2

\* line k of the text is a set or scalar directive and no line before it
\* opened an entity
NoCursorAt(lines, k) ==
  /\ lines[k].kw \in {"MLIMIT", "MLMTOL", "MLIMSW", "MLMENABLE"}
  /\ \A j \in 1..(k - 1) : ~OpensEntity(lines[j])

Directives ==
  {"MLOAD", "MMSID", "MLIMIT", "MLMTOL", "MLIMSW", "MLMENABLE", "MLMDEFTOL",
   "MLMTHROW"}

\* C20: read_glimmon fails on an input exactly when an MLIMIT, MLMTOL, MLIMSW
\* or MLMENABLE line occurs before any MLOAD/MMSID line has opened an entity;
\* on every other sequence of lines it returns an entity map, and a line that
\* is not a recognized directive changes neither the map nor the cursor.
C20_FailsOnlyWithoutCursor ==
  LET lines == Val(fillin).lines
      out == Val(fillout)
  IN /\ out.g.err <=> \E k \in 1..out.pos : NoCursorAt(lines, k)
     /\ (out.pos > 0 /\ lines[out.pos].kw \notin Directives) => out.g = out.prev

\* the temporary store of the running merge holds no limit row and no
\* expected-state row
EmptyProjection == newdb.limits = <<>> /\ newdb.expected_states = <<>>

\* the pairs of a table of the store, before the running merge, whose latest
\* row is enabled
EnabledBefore(tabletype) ==
  {k \in KeysOf(pre[TableOf(tabletype)]) :
     LatestOf(pre[TableOf(tabletype)], k).mlmenable # Num(0)}

\* C21: a merge of a revision whose projection yields no limit row and no
\* expected-state row runs to its end: it appends the versions row and the
\* fingerprint row of the revision, and the only rows it appends to limits
\* and expected_states are deactivation rows, one for each pair enabled in
\* the store.
C21_EmptyRevisionMerged ==
  (cur.done /\ EmptyProjection) =>
    /\ olddb.versions =
         Append(pre.versions, [version |-> RevNum(Val(cur.revision)),
                               datesec |-> Val(cur.date), date |-> Val(cur.date)])
    /\ \E i \in DOMAIN olddb.build_fingerprints :
         /\ olddb.build_fingerprints[i].source_file = cur.file
         /\ olddb.build_fingerprints[i].source_revision = cur.revision
    /\ \A tabletype \in TableTypes :
         /\ KeysOf(Appended(tabletype)) = EnabledBefore(tabletype)
         /\ \A i \in DOMAIN Appended(tabletype) :
              /\ Appended(tabletype)[i].mlmenable = Num(0)
              /\ Appended(tabletype)[i].modversion = RevNum(Val(cur.revision))
              /\ \A j \in DOMAIN Appended(tabletype) :
                   KeyOf(Appended(tabletype)[i]) = KeyOf(Appended(tabletype)[j])
                     => i = j

\* a merge of a revision without rows ran to its end on a store with an
\* enabled pair
C21_Witness ==
  /\ cur.done /\ EmptyProjection
  /\ EnabledBefore("limit") # {}

\* the rows of limits and expected_states of the store and of the temporary
\* store
StoredRows ==
  Range(olddb.limits) \cup Range(olddb.expected_states)
    \cup Range(newdb.limits) \cup Range(newdb.expected_states)

\* C22: every row stored in limits or expected_states, in every store built
\* from revisions that declare MLMENABLE only as 0 or 1, has mlmenable equal
\* to the number 0 or the number 1.
C22_EnableIsZeroOrOne ==
  \A row \in StoredRows : row.mlmenable \in {Num(0), Num(1)}

\* the store holds a deactivation row, a row of an entity enabled by the
\* default of the projection and a row of an entity enabled by the TDB default
C22_Witness ==
  /\ \E i \in DOMAIN olddb.limits : olddb.limits[i].mlmenable = Num(0)
  /\ \E i \in DOMAIN olddb.limits :
       olddb.limits[i].msid = "a" /\ olddb.limits[i].mlmenable = Num(1)
  /\ \E i \in DOMAIN olddb.limits :
       olddb.limits[i].msid = "b" /\ olddb.limits[i].mlmenable = Num(1)

\* the hash the state file records for a watched file, if it records one
RecordedHash(state_file, src_file) ==
  IF Has(state_file) /\ Val(state_file).readable
       /\ src_file \in DOMAIN Val(state_file).json
  THEN Some(Val(state_file).json[src_file])
  ELSE None

\* C23: a run of backup_if_changed that finds the source file copies it
\* exactly when its SHA-256 differs from the hash the state file records for
\* that source path; the consecutive runs that find one content of a file
\* make one copy of it in total; and a run that makes no copy leaves the
\* state file unchanged.
C23_CopiesExactlyOnChange ==
  /\ Has(fillout.last) =>
       LET run == Val(fillout.last)
       IN /\ ~run.raised =>
               (run.copied <=>
                  RecordedHash(run.before, run.src_file)
                    # Some(compute_hash(Val(run.content))))
          /\ ~run.copied => fillin.state = run.before
  /\ \A src_file \in SrcFiles :
       Has(fillout.seen[src_file]) => fillout.copies[src_file] = 1

\* a second run on an unchanged file has made no copy, after runs that
\* copied both contents of the file
C23_Witness ==
  /\ Has(fillout.last)
  /\ ~Val(fillout.last).raised /\ ~Val(fillout.last).copied
  /\ \E f, g \in fillin.dst :
       /\ f.name.stem = Val(fillout.last).src_file
       /\ g.name.stem = Val(fillout.last).src_file
       /\ f.content # g.content

\* the steps of one merge, in the order the claim gives them
MergeSteps == Passes \o <<"version", "fingerprint", "idle">>

\* C24: within one merge the store is written in the order limits added,
\* limits deactivated, limits modified, expected_states added, deactivated,
\* modified, the versions row, the fingerprint row: at every step of a merge
\* each table holds what it held before the merge followed by the writes of
\* the steps before, in that order, and nothing of a later step; so the
\* versions row is not written before the six passes have committed.
C24_WriteOrder ==
  LET at == CHOOSE i \in DOMAIN MergeSteps : MergeSteps[i] = pc
  IN (pc # "idle" \/ cur.done) =>
       /\ \A i \in DOMAIN Passes : i >= at => log[Passes[i]] = <<>>
       /\ olddb.limits = pre.limits \o log["limit_added"]
                           \o log["limit_deleted"] \o log["limit_modified"]
       /\ olddb.expected_states =
            pre.expected_states \o log["expected_state_added"]
              \o log["expected_state_deleted"] \o log["expected_state_modified"]
       /\ IF at <= 7 THEN olddb.versions = pre.versions
          ELSE /\ Len(olddb.versions) = Len(pre.versions) + 1
               /\ IsPrefix(pre.versions, olddb.versions)
       /\ IF at <= 8 THEN olddb.build_fingerprints = pre.build_fingerprints
          ELSE olddb.build_fingerprints # pre.build_fingerprints

\* a merge has run to its end that wrote deactivation rows to limits and
\* added rows to expected_states
C24_Witness ==
  /\ cur.done
  /\ log["limit_deleted"] # <<>>
  /\ log["expected_state_added"] # <<>>

\* the MLIMIT lines of the entity carry PPENG and carry EXPST
MixedLimits(limits) ==
  /\ \E i \in DOMAIN limits : Has(limits[i].ppeng)
  /\ \E i \in DOMAIN limits : Has(limits[i].expst)

\* the type of the last MLIMIT line that carries PPENG or EXPST, EXPST when
\* it carries both
LastDeclaredType(limits) ==
  LET typed == {i \in DOMAIN limits : Has(limits[i].ppeng) \/ Has(limits[i].expst)}
      last == CHOOSE i \in typed : \A j \in typed : j <= i
  IN IF Has(limits[last].expst) THEN "expected_state" ELSE "limit"

\* the projected rows of a type
RowsOfType(typ) == IF typ = "limit" THEN Val(fillout)[1] ELSE Val(fillout)[2]

\* C25: when the MLIMIT lines of one entity of a revision carry PPENG and
\* carry EXPST, the entity has the type of the last of them (EXPST when one
\* line carries both): every set it declares is projected to the table of
\* that type unless the entity is disabled, none to the other table, and no
\* entity has rows of the revision in both tables.
C25_MixedEntityOneTable ==
  (Has(fillout) /\ MixedLimits(Val(fillin).limits)) =>
    LET limits == Val(fillin).limits
        typ == LastDeclaredType(limits)
        other == CHOOSE t \in TableTypes : t # typ
        mine == SelectSeq(RowsOfType(typ), LAMBDA r : r.msid = "b")
    IN /\ \A i \in DOMAIN RowsOfType(other) : RowsOfType(other)[i].msid # "b"
       /\ 0 \notin DeclaredEnables(Val(fillin).decls) =>
            [i \in DOMAIN mine |-> mine[i].setkey]
              = [i \in DOMAIN limits |-> limits[i].setnum]
       /\ \A i \in DOMAIN Val(fillout)[1] : \A j \in DOMAIN Val(fillout)[2] :
            Val(fillout)[1][i].msid # Val(fillout)[2][j].msid

\* an entity with an EXPST line and then a PPENG line was projected to two
\* rows of limits, and an entry of the TDB was there for it
C25_Witness ==
  /\ Has(fillout)
  /\ MixedLimits(Val(fillin).limits)
  /\ LastDeclaredType(Val(fillin).limits) = "limit"
  /\ Val(fillin).intdb
  /\ Len(SelectSeq(Val(fillout)[1], LAMBDA r : r.msid = "b")) = 2

\* the rows of a table after the three passes of an uninterrupted merge of
\* the temporary store new into the store old
RECURSIVE MergedTable(_, _, _, _)
MergedTable(new, old, tabletype, kinds) ==
  IF kinds = <<>> THEN old[TableOf(tabletype)]
  ELSE LET ord(S) == CHOOSE order \in Perms(S) : TRUE
           rows == CASE Head(kinds) = "added" ->
                          AddRows(new, old, tabletype,
                                  ord(AddedSet(new, old, tabletype)))
                     [] Head(kinds) = "deleted" ->
                          DeactivateRows(new, old, tabletype,
                                         ord(DeletedSet(new, old, tabletype)))
                     [] Head(kinds) = "modified" ->
                          ModRows(new, old, tabletype,
                                  ord(ModifiedSet(new, old, tabletype)))
       IN MergedTable(new, commit_new_rows(old, rows, tabletype), tabletype,
                      Tail(kinds))

\* the rows of a table with the number of times it holds each
BagOfRows(rows) ==
  [r \in Range(rows) |-> Cardinality({i \in DOMAIN rows : rows[i] = r})]

\* C26: when a merge of a revision was stopped after some of its six passes
\* had committed and the same revision was then merged again to its end,
\* limits, expected_states and versions hold the rows that one uninterrupted
\* merge of the revision into the store of before would have left, each as
\* many times.
C26_AbortedMergeRedone ==
  (cur.done /\ Has(cur.base)) =>
    /\ \A tabletype \in TableTypes :
         BagOfRows(olddb[TableOf(tabletype)])
           = BagOfRows(MergedTable(newdb, Val(cur.base), tabletype,
                                   <<"added", "deleted", "modified">>))
    /\ BagOfRows(olddb.versions)
         = BagOfRows(Append(Val(cur.base).versions, newdb.versions[1]))

\* C27: after every merge that ran to its end, the modversion of every row of
\* limits and of expected_states is the version of a row of versions.
C27_ModversionHasVersionRow ==
  cur.done =>
    \A t \in {"limits", "expected_states"} : \A i \in DOMAIN olddb[t] :
      \E j \in DOMAIN olddb.versions :
        olddb.versions[j].version = olddb[t][i].modversion

\* the pairs whose latest row in the store is disabled and which the new
\* revision's rows hold
DisabledAndBack(tabletype) ==
  {k \in KeysOf(pre[TableOf(tabletype)]) \cap KeysOf(newdb[TableOf(tabletype)]) :
     LatestOf(pre[TableOf(tabletype)], k).mlmenable = Num(0)}

\* C28: a pair whose latest row in the store is disabled and which the new
\* revision's rows hold gets exactly one row from the merge, the new
\* revision's row, and it is the modified pass that appends it; the added
\* pass appends no row of the pair.
C28_DisabledKeyBack ==
  PassesDone =>
    \A tabletype \in TableTypes : \A k \in DisabledAndBack(tabletype) :
      LET new == LatestOf(newdb[TableOf(tabletype)], k)
      IN /\ RowsOfKey(Appended(tabletype), k) = <<new>>
         /\ RowsOfKey(log[PassOf(tabletype, "modified")], k) = <<new>>
         /\ RowsOfKey(log[PassOf(tabletype, "added")], k) = <<>>

\* the passes of a merge have run on a store with such a pair
C28_Witness ==
  PassesDone /\ \E tabletype \in TableTypes : DisabledAndBack(tabletype) # {}

\* C29: during every merge the temporary store holds exactly the rows
\* projected from the revision being merged and exactly one versions row,
\* that of the revision, whatever an earlier create_db left in the temporary
\* file: no row of a revision processed before is in it.
C29_TemporaryStoreOfRevision ==
  pc # "idle" =>
    LET g == LoadGlimmon(cur.file, Val(files[cur.file]))
        rd == gen_row_data(g, TRUE)
    IN /\ newdb.limits = StoredAll(rd[1], "limit")
       /\ newdb.expected_states = StoredAll(rd[2], "expected_state")
       /\ newdb.versions = <<[version |-> RevNum(Val(cur.revision)),
                              datesec |-> Val(cur.date), date |-> Val(cur.date)]>>
       /\ \A row \in Range(newdb.limits) \cup Range(newdb.expected_states) :
            row.modversion = RevNum(Val(cur.revision))

\* a merge runs on a temporary file that the base revision was written to
\* with a row of a pair that the revision being merged does not hold, and the
\* temporary store holds rows
C29_Witness ==
  /\ pc # "idle"
  /\ newdb.limits # <<>>
  /\ \E i \in DOMAIN olddb.limits :
       /\ olddb.limits[i].modversion = 0
       /\ KeyOf(olddb.limits[i]) \notin KeysOf(newdb.limits)

\* a text cell of a row that the declaration of its set gives or omits
DeclaredText(o) == IF Has(o) THEN Txt(Lower(Val(o))) ELSE Txt("none")

\* the revision declares a set of the entity that the TDB holds too
DeclaresTdbSet(in) ==
  /\ in.intdb
  /\ \E i \in DOMAIN in.limits : in.limits[i].setnum + 1 \in DOMAIN in.sets

\* C30: when a revision declares set k of an entity that has set k in the
\* TDB snapshot, the projected row of (entity, k) has the thresholds, or the
\* state label, and the switch state of the declared set alone, a field that
\* the declaration omits being 'none' and not the value of the TDB; and a
\* set of the TDB whose number the revision does not declare gives no row of
\* the entity.
C30_DeclaredSetReplacesTdbSet ==
  (Has(fillout) /\ DeclaresTdbSet(Val(fillin))) =>
    LET limits == Val(fillin).limits
        typ == LastDeclaredType(limits)
    IN /\ \A i \in DOMAIN RowsOfB :
            RowsOfB[i].setkey \in {limits[j].setnum : j \in DOMAIN limits}
       /\ \A j \in DOMAIN limits : \A i \in DOMAIN RowsOfType(typ) :
            LET row == RowsOfType(typ)[i]
                ppeng(n) == IF Has(limits[j].ppeng)
                            THEN Num(Val(limits[j].ppeng)[n]) ELSE Txt("none")
            IN (row.msid = "b" /\ row.setkey = limits[j].setnum) =>
                 /\ row.switchstate = DeclaredText(limits[j].switchstate)
                 /\ IF typ = "limit"
                    THEN /\ row.warning_low = ppeng(1)
                         /\ row.caution_low = ppeng(2)
                         /\ row.caution_high = ppeng(3)
                         /\ row.warning_high = ppeng(4)
                    ELSE row.expst = DeclaredText(limits[j].expst)

\* the TDB holds two sets of the entity with a switch state each; the
\* revision declares the first with thresholds and no switch state, and its
\* row was projected
C30_Witness ==
  /\ Has(fillout)
  /\ DeclaresTdbSet(Val(fillin))
  /\ Val(fillin).switched
  /\ DOMAIN Val(fillin).sets = {1, 2}
  /\ Val(fillin).limits = <<MLIMIT(0, Some(<<1, 2, 3, 4>>), None)>>
  /\ Len(RowsOfB) = 1

====
